---- MODULE Spec2Model ----
(***************************************************************************)
(* The tax engine of crypto-tax-tool: the per-(wallet, asset) lot pool     *)
(* (engine/lot-pool), the disposal engine (engine/disposal-engine), the    *)
(* holding period (engine/holding-period), the income classifier and the   *)
(* replay of calculateTaxes (engine/tax-calculator).                       *)
(*                                                                         *)
(* Amounts, unit prices and USD values of the inputs are whole numbers of  *)
(* some unit; every quotient the code computes is a decimal.js Decimal,    *)
(* modelled digit by digit with the library's default precision of 20      *)
(* significant digits and rounding mode ROUND_HALF_UP.  Instants are whole *)
(* ticks, TicksPerDay of them to the day.                                  *)
(***************************************************************************)
EXTENDS Integers, Sequences, FiniteSets, TLC

\* ------------------------------------------------------------ bounds
MaxLots == 2
MaxTx == 2
TicksPerDay == 2

\* ------------------------------------------------------------ constants
\* decimal.js: Decimal.precision (default), significant digits of a result
Precision == 20
LONG_TERM_HOLDING_DAYS == 365

\* Absent optional field (undefined) and a present one
None == <<>>
Some(v) == <<v>>
OrZero(x) == IF x = None THEN 0 ELSE x[1]

Abs(n) == IF n < 0 THEN -n ELSE n
Min(a, b) == IF a <= b THEN a ELSE b

\* ------------------------------------------------------------ Decimal
\* A Decimal is [neg, c, e]: value = (-1)^neg * c * 10^e, c a sequence of
\* decimal digits, most significant first, without leading or trailing
\* zeros (<<>> is zero), as decimal.js keeps sign, digits and exponent.

RECURSIVE DigitsOf(_)
DigitsOf(n) == IF n = 0 THEN <<>> ELSE DigitsOf(n \div 10) \o <<n % 10>>

RECURSIVE StripLead(_)
StripLead(d) == IF d # <<>> /\ d[1] = 0 THEN StripLead(Tail(d)) ELSE d

RECURSIVE TrailZeros(_)
TrailZeros(d) ==
  IF d # <<>> /\ d[Len(d)] = 0 THEN 1 + TrailZeros(SubSeq(d, 1, Len(d) - 1)) ELSE 0

Zeros(n) == [i \in 1..n |-> 0]
PadLeft(d, n) == Zeros(n - Len(d)) \o d

DecZero == [neg |-> FALSE, c |-> <<>>, e |-> 0]

\* Normal form: no leading zeros, no trailing zeros, one zero
Canon(neg, c, e) ==
  LET s == StripLead(c)
      t == TrailZeros(s)
  IN IF s = <<>> THEN DecZero
     ELSE [neg |-> neg, c |-> SubSeq(s, 1, Len(s) - t), e |-> e + t]

RECURSIVE AddC(_, _, _, _, _)
AddC(x, y, i, carry, acc) ==
  IF i = 0 THEN (IF carry > 0 THEN <<carry>> \o acc ELSE acc)
  ELSE LET s == x[i] + y[i] + carry
       IN AddC(x, y, i - 1, s \div 10, <<s % 10>> \o acc)

\* x + y on digit sequences
NatAdd(x, y) ==
  LET n == IF Len(x) >= Len(y) THEN Len(x) ELSE Len(y)
  IN AddC(PadLeft(x, n), PadLeft(y, n), n, 0, <<>>)

RECURSIVE SubC(_, _, _, _, _)
SubC(x, y, i, borrow, acc) ==
  IF i = 0 THEN acc
  ELSE LET s == x[i] - y[i] - borrow
       IN IF s < 0 THEN SubC(x, y, i - 1, 1, <<s + 10>> \o acc)
          ELSE SubC(x, y, i - 1, 0, <<s>> \o acc)

\* x - y on digit sequences, x >= y
NatSub(x, y) ==
  LET n == IF Len(x) >= Len(y) THEN Len(x) ELSE Len(y)
  IN StripLead(SubC(PadLeft(x, n), PadLeft(y, n), n, 0, <<>>))

RECURSIVE LexCmp(_, _, _)
LexCmp(x, y, i) ==
  IF i > Len(x) THEN 0
  ELSE IF x[i] < y[i] THEN -1
  ELSE IF x[i] > y[i] THEN 1
  ELSE LexCmp(x, y, i + 1)

\* -1, 0, 1 as x <, =, > y on digit sequences
NatCmp(x, y) ==
  LET n == IF Len(x) >= Len(y) THEN Len(x) ELSE Len(y)
  IN LexCmp(PadLeft(x, n), PadLeft(y, n), 1)

RECURSIVE MulC(_, _, _, _, _)
MulC(x, k, i, carry, acc) ==
  IF i = 0 THEN DigitsOf(carry) \o acc
  ELSE LET s == x[i] * k + carry
       IN MulC(x, k, i - 1, s \div 10, <<s % 10>> \o acc)

\* x * k on a digit sequence, k a small natural
NatMulSmall(x, k) == StripLead(MulC(x, k, Len(x), 0, <<>>))

\* Round the coefficient c (no leading zeros) to Precision significant
\* digits, half up on the magnitude (ROUND_HALF_UP)
DecRound(neg, c, e) ==
  IF Len(c) <= Precision THEN Canon(neg, c, e)
  ELSE LET head == SubSeq(c, 1, Precision)
           up   == c[Precision + 1] >= 5
       IN Canon(neg, IF up THEN NatAdd(head, <<1>>) ELSE head,
                e + (Len(c) - Precision))

DecOfInt(n) == Canon(n < 0, DigitsOf(Abs(n)), 0)
DecNeg(x) == IF x.c = <<>> THEN x ELSE [x EXCEPT !.neg = ~x.neg]

\* The exact sum of two Decimals
DecAddExact(x, y) ==
  LET e  == Min(x.e, y.e)
      cx == x.c \o Zeros(x.e - e)
      cy == y.c \o Zeros(y.e - e)
      cmp == NatCmp(cx, cy)
  IN IF x.c = <<>> THEN y
     ELSE IF y.c = <<>> THEN x
     ELSE IF x.neg = y.neg THEN Canon(x.neg, NatAdd(cx, cy), e)
     ELSE IF cmp = 0 THEN DecZero
     ELSE IF cmp > 0 THEN Canon(x.neg, NatSub(cx, cy), e)
     ELSE Canon(y.neg, NatSub(cy, cx), e)

\* -1, 0, 1 as x <, =, > y
DecCmp(x, y) ==
  LET d == DecAddExact(x, DecNeg(y))
  IN IF d.c = <<>> THEN 0 ELSE IF d.neg THEN -1 ELSE 1

\* Decimal.plus, Decimal.minus: the exact result rounded to Precision
DecPlus(x, y) == LET s == DecAddExact(x, y) IN DecRound(s.neg, s.c, s.e)
DecMinus(x, y) == DecPlus(x, DecNeg(y))

\* Decimal.mul by a whole number k
DecMulInt(x, k) ==
  DecRound((k < 0) # x.neg, NatMulSmall(x.c, Abs(k)), x.e)

RECURSIVE DivLoop(_, _, _, _)
DivLoop(r, b, acc, e) ==
  IF r = 0 \/ Len(acc) > Precision THEN [c |-> acc, e |-> e]
  ELSE LET d == (r * 10) \div b
       IN DivLoop((r * 10) % b, b,
                  IF acc = <<>> /\ d = 0 THEN <<>> ELSE Append(acc, d), e - 1)

\* Decimal.div of whole numbers a >= 0 and b > 0: long division to one
\* digit past the precision, then rounded
DecDivInt(a, b) ==
  LET q == DivLoop(a % b, b, DigitsOf(a \div b), 0)
  IN DecRound(FALSE, q.c, q.e)

RECURSIVE DivDigits(_, _, _, _, _)
DivDigits(c, i, r, b, acc) ==
  IF i > Len(c) THEN [q |-> StripLead(acc), r |-> r]
  ELSE DivDigits(c, i + 1, (r * 10 + c[i]) % b, b,
                 Append(acc, (r * 10 + c[i]) \div b))

\* Decimal.div of a Decimal x by a whole number b > 0
DecDivSmall(x, b) ==
  LET whole == DivDigits(x.c, 1, 0, b, <<>>)
      q == DivLoop(whole.r, b, whole.q, x.e)
  IN DecRound(x.neg, q.c, q.e)

RECURSIVE IntOfDigits(_)
IntOfDigits(c) ==
  IF c = <<>> THEN 0 ELSE IntOfDigits(SubSeq(c, 1, Len(c) - 1)) * 10 + c[Len(c)]

\* The whole number a Decimal without fraction digits stands for
DecToInt(x) ==
  LET n == IntOfDigits(x.c \o Zeros(x.e)) IN IF x.neg THEN 0 - n ELSE n

\* ------------------------------------------------------------ domains
Wallets == {"A", "B"}
Assets == {"BTC", "ETH"}
Pairs == Wallets \X Assets
Methods == {"FIFO", "LIFO", "HIFO"}
INCOME_TYPES == {"MINING", "STAKING", "AIRDROP", "FORK", "INCOME"}
ACQUISITION_TYPES == {"BUY", "RECEIVE", "GIFT_RECEIVED"}

VARIABLES
  pools,          \* WalletLotPool.pools: (wallet, asset) -> sequence of lots
  nextLotId,      \* WalletLotPool.nextLotId
  last,           \* the most recent call on the pool and what it returned
  transactions,   \* calculateTaxes: the input list
  method,         \* calculateTaxes: the cost basis method
  sorted,         \* calculateTaxes: sortTransactions(transactions)
  pc,             \* calculateTaxes: "sort", "loop" or "done"
  idx,            \* calculateTaxes: position of the loop in sorted
  disposals, incomeEvents, errors, warnings,
  remainingLots,  \* calculateTaxes: the returned remaining lots
  added,          \* history of the replay: total amount added per (wallet, asset)
  returned,       \* history of the replay: total amount consumeLots returned per pair
  ctContent,      \* the rows of the CoinTracker export given to normalizeCoinTracker
  csvContent,     \* the rows of the native CSV given to parseCsv
  parseResult,    \* the errors and warnings parseCsv returned
  taxYear,        \* generateReport: the target year
  report,         \* generateReport: the report returned
  tz,             \* local time minus UTC of the process, in ticks
  papaErrors,     \* parsed.errors: what Papa.parse reported on the CSV text
  oracleCalls,    \* the calls of fetchDailyPrices so far: ticker and answer
  normalizationWarnings  \* importCsv: the warnings of normalizer and enrichment

poolVars == <<pools, nextLotId, last>>
ioVars == <<ctContent, csvContent, parseResult, taxYear, report, tz, papaErrors,
                 oracleCalls, normalizationWarnings>>
calcVars == <<transactions, method, sorted, pc, idx, disposals, incomeEvents,
              errors, warnings, remainingLots, added, returned, ioVars>>
vars == <<pools, nextLotId, last, transactions, method, sorted, pc, idx,
          disposals, incomeEvents, errors, warnings, remainingLots, added,
          returned, ctContent, csvContent, parseResult, taxYear, report, tz, papaErrors,
                 oracleCalls, normalizationWarnings>>

\* Nothing imported, nothing reported
InitIo ==
  /\ ctContent = <<>> /\ csvContent = <<>>
  /\ parseResult = [errors |-> <<>>, warnings |-> <<>>]
  /\ taxYear = 0 /\ report = None /\ tz = 0 /\ papaErrors = <<>>
  /\ oracleCalls = <<>> /\ normalizationWarnings = <<>>

\* ------------------------------------------------------------ lot pool
RECURSIVE SumAmounts(_)
SumAmounts(lots) ==
  IF lots = <<>> THEN 0 ELSE lots[1].amount + SumAmounts(Tail(lots))

RECURSIVE FilterPositive(_)
FilterPositive(lots) ==
  IF lots = <<>> THEN <<>>
  ELSE IF lots[1].amount > 0 THEN <<lots[1]>> \o FilterPositive(Tail(lots))
  ELSE FilterPositive(Tail(lots))

EmptyPools == [p \in Pairs |-> <<>>]

\* A lookup that falls back to the lots of the asset at wallet "A"
getLotsAnyWallet(p, wallet, asset) ==
  IF p[<<wallet, asset>>] # <<>> THEN p[<<wallet, asset>>] ELSE p[<<"A", asset>>]

getLots(p, wallet, asset) == p[<<wallet, asset>>]

addLot(p, lot) == [p EXCEPT ![<<lot.wallet, lot.asset>>] = Append(@, lot)]

Sign(n) == IF n < 0 THEN -1 ELSE IF n > 0 THEN 1 ELSE 0

\* The comparator consumeLots hands to Array.prototype.sort
lotCompareFlipLifo(m, a, b) ==
  IF m = "HIFO" THEN Sign(b.costBasisPerUnit - a.costBasisPerUnit)
  ELSE a.acquisitionDate - b.acquisitionDate

lotCompare(m, a, b) ==
  CASE m = "FIFO" -> a.acquisitionDate - b.acquisitionDate
    [] m = "LIFO" -> b.acquisitionDate - a.acquisitionDate
    [] m = "HIFO" -> Sign(b.costBasisPerUnit - a.costBasisPerUnit)

\* Array.prototype.sort is stable: the indices of lots in sorted order,
\* each index inserted after every index that does not compare greater
InsertIdx(order, lots, i, m) ==
  LET after == {k \in 1..Len(order) : lotCompare(m, lots[order[k]], lots[i]) > 0}
      pos   == IF after = {} THEN Len(order) + 1
               ELSE CHOOSE k \in after : \A j \in after : k <= j
  IN SubSeq(order, 1, pos - 1) \o <<i>> \o SubSeq(order, pos, Len(order))

RECURSIVE SortFrom(_, _, _, _)
SortFrom(order, lots, i, m) ==
  IF i > Len(lots) THEN order
  ELSE SortFrom(InsertIdx(order, lots, i, m), lots, i + 1, m)

SortOrder(lots, m) == SortFrom(<<>>, lots, 1, m)

\* The loop of consumeLots over the sorted view; the lots of the view are
\* the pool's own objects, so lot.amount = ... writes the pool
RECURSIVE Walk(_, _, _, _, _)
Walk(lots, order, k, remaining, consumed) ==
  IF k > Len(order) \/ remaining <= 0
  THEN [lots |-> lots, remaining |-> remaining, consumed |-> consumed]
  ELSE LET i == order[k]
           lot == lots[i]
       IN IF lot.amount <= remaining
          THEN Walk([lots EXCEPT ![i].amount = 0], order, k + 1,
                    remaining - lot.amount, Append(consumed, lot))
          ELSE Walk([lots EXCEPT ![i].amount = lot.amount - remaining], order,
                    k + 1, 0, Append(consumed, [lot EXCEPT !.amount = remaining]))

\* consumeLots without the check of what is left after the loop
consumeLotsNoCheck(p, wallet, asset, amount, m) ==
  LET lots == getLots(p, wallet, asset)
      w == Walk(lots, SortOrder(lots, m), 1, amount, <<>>)
  IN IF Len(lots) = 0
     THEN [ok |-> FALSE, pools |-> p, consumed |-> <<>>]
     ELSE [ok |-> TRUE,
           pools |-> [p EXCEPT ![<<wallet, asset>>] = FilterPositive(w.lots)],
           consumed |-> w.consumed]

\* consumeLots: ok = FALSE is the thrown "Insufficient lots" error
consumeLots(p, wallet, asset, amount, m) ==
  LET lots == getLots(p, wallet, asset)
      w == Walk(lots, SortOrder(lots, m), 1, amount, <<>>)
  IN IF Len(lots) = 0
     THEN [ok |-> FALSE, pools |-> p, consumed |-> <<>>]
     ELSE IF w.remaining > 0
     THEN [ok |-> FALSE, pools |-> [p EXCEPT ![<<wallet, asset>>] = w.lots],
           consumed |-> <<>>]
     ELSE [ok |-> TRUE,
           pools |-> [p EXCEPT ![<<wallet, asset>>] = FilterPositive(w.lots)],
           consumed |-> w.consumed]

\* The consumed lots re-added under the ids they had at the source
RECURSIVE AddTransferredSameId(_, _, _, _)
AddTransferredSameId(p, consumed, id, toWallet) ==
  IF consumed = <<>> THEN p
  ELSE AddTransferredSameId(
         addLot(p, [consumed[1] EXCEPT !.wallet = toWallet]),
         Tail(consumed), id + 1, toWallet)

RECURSIVE AddTransferred(_, _, _, _)
AddTransferred(p, consumed, id, toWallet) ==
  IF consumed = <<>> THEN p
  ELSE AddTransferred(
         addLot(p, [consumed[1] EXCEPT !.id = id, !.wallet = toWallet]),
         Tail(consumed), id + 1, toWallet)

transferLots(p, nextId, fromWallet, toWallet, asset, amount) ==
  LET c == consumeLots(p, fromWallet, asset, amount, "FIFO")
  IN IF ~c.ok
     THEN [ok |-> FALSE, pools |-> c.pools, nextLotId |-> nextId,
           consumed |-> <<>>]
     ELSE [ok |-> TRUE,
           pools |-> AddTransferred(c.pools, c.consumed, nextId, toWallet),
           nextLotId |-> nextId + Len(c.consumed), consumed |-> c.consumed]

\* getAllRemainingLots, as the set of the lots it returns (lot ids are
\* unique); the order of the returned array, the Maps' insertion order of
\* wallets and assets, is not modelled
getAllRemainingLots(p) ==
  UNION {{p[x][i] : i \in {j \in 1..Len(p[x]) : p[x][j].amount > 0}} : x \in Pairs}

\* ------------------------------------------------------------ holding period
msPerDay == TicksPerDay

getHoldingDays(acquisitionDate, disposalDate) ==
  (disposalDate - acquisitionDate) \div msPerDay

isLongTermGe(acquisitionDate, disposalDate) ==
  getHoldingDays(acquisitionDate, disposalDate) >= LONG_TERM_HOLDING_DAYS

isLongTerm(acquisitionDate, disposalDate) ==
  getHoldingDays(acquisitionDate, disposalDate) > LONG_TERM_HOLDING_DAYS

\* ------------------------------------------------------------ disposal engine
disposalResult(lot, asset, totalConsumed, proceeds, disposalDate, disposalType) ==
  LET proportion == DecDivInt(lot.amount, totalConsumed)
      lotProceeds == DecMulInt(proportion, proceeds)
      costBasis == DecOfInt(lot.amount * lot.costBasisPerUnit)
  IN [asset |-> asset, amount |-> lot.amount, disposalDate |-> disposalDate,
      disposalType |-> disposalType, proceeds |-> lotProceeds,
      costBasis |-> costBasis, gainOrLoss |-> DecMinus(lotProceeds, costBasis),
      isLongTerm |-> isLongTerm(lot.acquisitionDate, disposalDate),
      holdingDays |-> getHoldingDays(lot.acquisitionDate, disposalDate),
      acquisitionDate |-> lot.acquisitionDate, lotId |-> lot.id]

processDisposal(p, wallet, asset, amount, proceeds, disposalDate, disposalType, m) ==
  LET c == consumeLots(p, wallet, asset, amount, m)
      totalConsumed == SumAmounts(c.consumed)
  IN [ok |-> c.ok, pools |-> c.pools, consumed |-> c.consumed,
      results |-> [i \in 1..Len(c.consumed) |->
                     disposalResult(c.consumed[i], asset, totalConsumed,
                                    proceeds, disposalDate, disposalType)]]

\* ------------------------------------------------------------ the pool's callers
\* The pool driven call by call: the inputs of SpecPool
PoolAssets == {"BTC"}
PoolAddWallets == {"A"}
PoolAmounts == {1, 3}
\* <<acquisition instant, cost basis per unit>> of the lots added
PoolLotKinds == {<<0, 1>>, <<1, 1>>, <<0, 2>>}
PoolConsume == {1, 2, 3}
PoolProceeds == {3}
PoolDisposalDate == TicksPerDay

NoCall == [op |-> "none", wallet |-> "", to |-> "", asset |-> "", amount |-> 0,
           proceeds |-> 0, method |-> "", ok |-> TRUE, consumed |-> <<>>,
           results |-> <<>>]

InitPool ==
  /\ pools = EmptyPools
  /\ nextLotId = 1
  /\ last = NoCall

InitIdle ==
  /\ transactions = <<>> /\ method = "FIFO" /\ sorted = <<>>
  /\ pc = "idle" /\ idx = 0
  /\ disposals = <<>> /\ incomeEvents = <<>> /\ errors = <<>>
  /\ warnings = <<>> /\ remainingLots = {}
  /\ added = [p \in Pairs |-> 0]
  /\ returned = [p \in Pairs |-> 0]
  /\ InitIo

\* lotPool.addLot({id: lotPool.generateLotId(), ...})
AddLot(wallet, asset, amount, basis, date) ==
  /\ nextLotId <= MaxLots
  /\ pools' = addLot(pools, [id |-> nextLotId, asset |-> asset, amount |-> amount,
                             originalAmount |-> amount, costBasisPerUnit |-> basis,
                             acquisitionDate |-> date, acquisitionType |-> "BUY",
                             wallet |-> wallet])
  /\ nextLotId' = nextLotId + 1
  /\ last' = [NoCall EXCEPT !.op = "addLot", !.wallet = wallet, !.asset = asset,
                            !.amount = amount]
  /\ UNCHANGED calcVars

ConsumeLots(wallet, asset, amount, m) ==
  LET c == consumeLots(pools, wallet, asset, amount, m)
  IN /\ pools' = c.pools
     /\ last' = [NoCall EXCEPT !.op = "consumeLots", !.wallet = wallet,
                   !.asset = asset, !.amount = amount, !.method = m,
                   !.ok = c.ok, !.consumed = c.consumed]
     /\ UNCHANGED <<nextLotId, calcVars>>

TransferLots(fromWallet, toWallet, asset, amount) ==
  LET t == transferLots(pools, nextLotId, fromWallet, toWallet, asset, amount)
  IN /\ t.nextLotId <= MaxLots + 1
     /\ pools' = t.pools
     /\ nextLotId' = t.nextLotId
     /\ last' = [NoCall EXCEPT !.op = "transferLots", !.wallet = fromWallet,
                   !.to = toWallet, !.asset = asset, !.amount = amount, !.method = "FIFO",
                   !.ok = t.ok, !.consumed = t.consumed]
     /\ UNCHANGED calcVars

ProcessDisposal(wallet, asset, amount, proceeds, m) ==
  LET d == processDisposal(pools, wallet, asset, amount, proceeds,
                           PoolDisposalDate, "SELL", m)
  IN /\ pools' = d.pools
     /\ last' = [NoCall EXCEPT !.op = "processDisposal", !.wallet = wallet,
                   !.asset = asset, !.amount = amount, !.proceeds = proceeds,
                   !.method = m, !.ok = d.ok, !.consumed = d.consumed,
                   !.results = d.results]
     /\ UNCHANGED <<nextLotId, calcVars>>

AddAny ==
  \E w \in PoolAddWallets, a \in PoolAssets, q \in PoolAmounts,
     k \in PoolLotKinds : AddLot(w, a, q, k[2], k[1])

ConsumeAny ==
  \E w \in Wallets, a \in PoolAssets, q \in PoolConsume, m \in Methods :
     ConsumeLots(w, a, q, m)

TransferAny ==
  \E a \in PoolAssets, q \in PoolConsume : TransferLots("A", "B", a, q)

DisposeAny ==
  \E w \in Wallets, a \in PoolAssets, q \in PoolConsume, r \in PoolProceeds,
     m \in Methods : ProcessDisposal(w, a, q, r, m)

\* A new pool, no replay under way
InitCallers == InitPool /\ InitIdle

\* The lot pool under its callers: add, consume, transfer
NextPool == AddAny \/ ConsumeAny \/ TransferAny
SpecPool == InitCallers /\ [][NextPool]_vars

\* The disposal engine on a pool its caller fills
NextDisposal == AddAny \/ DisposeAny
SpecDisposal == InitCallers /\ [][NextDisposal]_vars

\* ------------------------------------------------------------ income classifier
\* The unit price of the received leg is a Decimal here, the amount a whole
\* number; fairMarketValueUsd = amount.mul(priceUsd)
classifyIncome(tx) ==
  IF tx.type \notin INCOME_TYPES THEN None
  ELSE IF tx.receivedAmount = None \/ tx.receivedAssetPriceUsd = None
          \/ tx.receivedAsset = None THEN None
  ELSE Some([date |-> tx.dateTime, type |-> tx.type, asset |-> tx.receivedAsset[1],
             amount |-> tx.receivedAmount[1],
             fairMarketValueUsd |->
               DecMulInt(tx.receivedAssetPriceUsd[1], tx.receivedAmount[1]),
             wallet |-> tx.wallet])

\* costBasisPerUnit = event.fairMarketValueUsd.div(event.amount), a Decimal
createIncomeLot(event, lotId) ==
  [id |-> lotId, asset |-> event.asset, amount |-> event.amount,
   originalAmount |-> event.amount,
   costBasisPerUnit |-> DecDivSmall(event.fairMarketValueUsd, event.amount),
   acquisitionDate |-> event.date, acquisitionType |-> event.type,
   wallet |-> event.wallet]

\* ------------------------------------------------------------ tax calculator
acquisitionPriorityNoIncome == ACQUISITION_TYPES \cup {"RECEIVE"}

acquisitionPriority == ACQUISITION_TYPES \cup INCOME_TYPES \cup {"RECEIVE"}

\* The comparator of sortTransactions
txCompare(a, b) ==
  LET timeDiff == a.dateTime - b.dateTime
      aIsAcq == IF a.type \in acquisitionPriority THEN 0 ELSE 1
      bIsAcq == IF b.type \in acquisitionPriority THEN 0 ELSE 1
  IN IF timeDiff # 0 THEN timeDiff ELSE aIsAcq - bIsAcq

\* [...transactions].sort(compare), a stable sort: each element goes after
\* every element that does not compare greater
InsertTx(out, tx) ==
  LET after == {k \in 1..Len(out) : txCompare(out[k], tx) > 0}
      pos   == IF after = {} THEN Len(out) + 1
               ELSE CHOOSE k \in after : \A j \in after : k <= j
  IN SubSeq(out, 1, pos - 1) \o <<tx>> \o SubSeq(out, pos, Len(out))

RECURSIVE SortTxFrom(_, _, _)
SortTxFrom(out, txs, i) ==
  IF i > Len(txs) THEN out ELSE SortTxFrom(InsertTx(out, txs[i]), txs, i + 1)

\* The transactions replayed in the order of the input list
sortTransactionsInputOrder(txs) == txs

sortTransactions(txs) == SortTxFrom(<<>>, txs, 1)

\* The received lot valued at the unit price of the sent leg
receivedLotAtSentPrice(tx, lotId) ==
  [id |-> lotId, asset |-> tx.receivedAsset[1], amount |-> tx.receivedAmount[1],
   originalAmount |-> tx.receivedAmount[1],
   costBasisPerUnit |-> OrZero(tx.sentAssetPriceUsd),
   acquisitionDate |-> tx.dateTime, acquisitionType |-> tx.type,
   wallet |-> tx.wallet]

\* The lot BUY, GIFT_RECEIVED, RECEIVE and the received leg of a TRADE add
receivedLot(tx, lotId) ==
  [id |-> lotId, asset |-> tx.receivedAsset[1], amount |-> tx.receivedAmount[1],
   originalAmount |-> tx.receivedAmount[1],
   costBasisPerUnit |-> OrZero(tx.receivedAssetPriceUsd),
   acquisitionDate |-> tx.dateTime, acquisitionType |-> tx.type,
   wallet |-> tx.wallet]

\* The error the catch of the loop records
txError(tx) ==
  [row |-> 0, field |-> "", type |-> tx.type, dateTime |-> tx.dateTime,
   message |-> "Insufficient lots"]

feeWarning(tx) ==
  [row |-> 0, field |-> "", message |-> "Could not account for transfer fee",
   feeAmount |-> tx.feeAmount[1], asset |-> tx.sentAsset[1], wallet |-> tx.wallet]

\* The method a SEND would consume under if it followed the caller's choice
sendMethodSelected == method

\* lotPool.consumeLots(tx.wallet, asset, amount, CostBasisMethod.FIFO)
sendMethod == "FIFO"

\* The fee of a SEND disposed at the price of the sent leg
feeProceedsAtPrice(tx) == tx.feeAmount[1] * OrZero(tx.sentAssetPriceUsd)

\* const feeUsd = tx.feeUsd ?? new Decimal(0)
feeProceeds(tx) == OrZero(tx.feeUsd)

\* A gift disposed at the price of the sent leg
giftProceedsAtPrice(tx) == tx.sentAmount[1] * OrZero(tx.sentAssetPriceUsd)

\* new Decimal(0): the proceeds of a GIFT_SENT
giftProceeds(tx) == 0

\* amount.mul(priceUsd) of SELL, SPEND and TRADE
sentProceeds(tx) == tx.sentAmount[1] * OrZero(tx.sentAssetPriceUsd)

Bump(f, wallet, asset, n) == [f EXCEPT ![<<wallet, asset>>] = @ + n]

\* const sorted = sortTransactions(transactions)
Sort ==
  /\ pc = "sort"
  /\ sorted' = sortTransactions(transactions)
  /\ idx' = 1
  /\ pc' = "loop"
  /\ UNCHANGED <<ioVars, poolVars, transactions, method, disposals, incomeEvents,
                 errors, warnings, remainingLots, added, returned>>

InLoop(types) == pc = "loop" /\ idx <= Len(sorted) /\ sorted[idx].type \in types

\* One iteration that adds the lot of the received leg and cannot throw
AddReceived(tx) ==
  /\ pools' = addLot(pools, receivedLot(tx, nextLotId))
  /\ nextLotId' = nextLotId + 1
  /\ added' = Bump(added, tx.wallet, tx.receivedAsset[1], tx.receivedAmount[1])
  /\ idx' = idx + 1
  /\ UNCHANGED <<ioVars, last, transactions, method, sorted, pc, disposals,
                 incomeEvents, errors, warnings, remainingLots, returned>>

\* case BUY, case GIFT_RECEIVED
StepAcquire == InLoop({"BUY", "GIFT_RECEIVED"}) /\ AddReceived(sorted[idx])

\* case RECEIVE
StepReceive == InLoop({"RECEIVE"}) /\ AddReceived(sorted[idx])

\* The transaction with the unit price of its received leg as a Decimal;
\* the pool of the replay keeps the whole-number bases as integers
DecPriced(tx) ==
  [tx EXCEPT !.receivedAssetPriceUsd = IF @ = None THEN None ELSE Some(DecOfInt(@[1]))]

\* case MINING, STAKING, AIRDROP, FORK, INCOME
StepIncome ==
  /\ InLoop(INCOME_TYPES)
  /\ LET ev == classifyIncome(DecPriced(sorted[idx]))
         lot == createIncomeLot(ev[1], nextLotId)
     IN IF ev = None
        THEN UNCHANGED <<pools, nextLotId, incomeEvents, added>>
        ELSE /\ incomeEvents' = Append(incomeEvents, ev[1])
             /\ pools' = addLot(pools, [lot EXCEPT !.costBasisPerUnit = DecToInt(@)])
             /\ nextLotId' = nextLotId + 1
             /\ added' = Bump(added, ev[1].wallet, ev[1].asset, ev[1].amount)
  /\ idx' = idx + 1
  /\ UNCHANGED <<ioVars, last, transactions, method, sorted, pc, disposals, errors,
                 warnings, remainingLots, returned>>

\* The iteration of a disposal with the new results put before the old
DisposePrepending(tx, proceeds) ==
  LET d == processDisposal(pools, tx.wallet, tx.sentAsset[1], tx.sentAmount[1],
                           proceeds, tx.dateTime, tx.type, method)
  IN /\ pools' = d.pools
     /\ returned' = Bump(returned, tx.wallet, tx.sentAsset[1], SumAmounts(d.consumed))
     /\ IF d.ok
        THEN disposals' = d.results \o disposals /\ errors' = errors
        ELSE disposals' = disposals /\ errors' = Append(errors, txError(tx))
     /\ idx' = idx + 1
     /\ UNCHANGED <<ioVars, nextLotId, last, transactions, method, sorted, pc,
                    incomeEvents, warnings, remainingLots, added>>

\* One iteration that is a single processDisposal of the sent leg
Dispose(tx, proceeds) ==
  LET d == processDisposal(pools, tx.wallet, tx.sentAsset[1], tx.sentAmount[1],
                           proceeds, tx.dateTime, tx.type, method)
  IN /\ pools' = d.pools
     /\ returned' = Bump(returned, tx.wallet, tx.sentAsset[1], SumAmounts(d.consumed))
     /\ IF d.ok
        THEN disposals' = disposals \o d.results /\ errors' = errors
        ELSE disposals' = disposals /\ errors' = Append(errors, txError(tx))
     /\ idx' = idx + 1
     /\ UNCHANGED <<ioVars, nextLotId, last, transactions, method, sorted, pc,
                    incomeEvents, warnings, remainingLots, added>>

\* case SELL
StepSell == InLoop({"SELL"}) /\ Dispose(sorted[idx], sentProceeds(sorted[idx]))

\* case SPEND
StepSpend == InLoop({"SPEND"}) /\ Dispose(sorted[idx], sentProceeds(sorted[idx]))

\* case GIFT_SENT
StepGiftSent == InLoop({"GIFT_SENT"}) /\ Dispose(sorted[idx], giftProceeds(sorted[idx]))

\* A TRADE that adds the lot of the received leg whether or not the
\* disposal of the sent leg succeeded
StepTradeAcquiringAnyway ==
  /\ InLoop({"TRADE"})
  /\ LET tx == sorted[idx]
         d == processDisposal(pools, tx.wallet, tx.sentAsset[1], tx.sentAmount[1],
                              sentProceeds(tx), tx.dateTime, tx.type, method)
     IN /\ returned' = Bump(returned, tx.wallet, tx.sentAsset[1], SumAmounts(d.consumed))
        /\ pools' = addLot(d.pools, receivedLot(tx, nextLotId))
        /\ nextLotId' = nextLotId + 1
        /\ added' = Bump(added, tx.wallet, tx.receivedAsset[1], tx.receivedAmount[1])
        /\ IF d.ok
           THEN disposals' = disposals \o d.results /\ errors' = errors
           ELSE disposals' = disposals /\ errors' = Append(errors, txError(tx))
  /\ idx' = idx + 1
  /\ UNCHANGED <<ioVars, last, transactions, method, sorted, pc, incomeEvents, warnings,
                 remainingLots>>

\* case TRADE
StepTrade ==
  /\ InLoop({"TRADE"})
  /\ LET tx == sorted[idx]
         d == processDisposal(pools, tx.wallet, tx.sentAsset[1], tx.sentAmount[1],
                              sentProceeds(tx), tx.dateTime, tx.type, method)
     IN /\ returned' = Bump(returned, tx.wallet, tx.sentAsset[1], SumAmounts(d.consumed))
        /\ IF d.ok
           THEN /\ disposals' = disposals \o d.results
                /\ pools' = addLot(d.pools, receivedLot(tx, nextLotId))
                /\ nextLotId' = nextLotId + 1
                /\ added' = Bump(added, tx.wallet, tx.receivedAsset[1],
                                 tx.receivedAmount[1])
                /\ errors' = errors
           ELSE /\ pools' = d.pools
                /\ errors' = Append(errors, txError(tx))
                /\ UNCHANGED <<disposals, nextLotId, added>>
  /\ idx' = idx + 1
  /\ UNCHANGED <<ioVars, last, transactions, method, sorted, pc, incomeEvents, warnings,
                 remainingLots>>

\* case SEND
StepSend ==
  /\ InLoop({"SEND"})
  /\ LET tx == sorted[idx]
         asset == tx.sentAsset[1]
         c == consumeLots(pools, tx.wallet, asset, tx.sentAmount[1], sendMethod)
         hasFee == /\ tx.feeAmount # None /\ tx.feeAsset # None
                   /\ tx.feeAsset[1] = asset /\ tx.feeAmount[1] > 0
         f == processDisposal(c.pools, tx.wallet, asset, tx.feeAmount[1],
                              feeProceeds(tx), tx.dateTime, "SPEND", method)
     IN IF ~c.ok
        THEN /\ pools' = c.pools
             /\ errors' = Append(errors, txError(tx))
             /\ UNCHANGED <<disposals, warnings, returned>>
        ELSE IF ~hasFee
        THEN /\ pools' = c.pools
             /\ returned' = Bump(returned, tx.wallet, asset, SumAmounts(c.consumed))
             /\ UNCHANGED <<disposals, warnings, errors>>
        ELSE /\ pools' = f.pools
             /\ returned' = Bump(returned, tx.wallet, asset,
                                 SumAmounts(c.consumed) + SumAmounts(f.consumed))
             /\ IF f.ok
                THEN disposals' = disposals \o f.results /\ warnings' = warnings
                ELSE disposals' = disposals /\ warnings' = Append(warnings, feeWarning(tx))
             /\ errors' = errors
  /\ idx' = idx + 1
  /\ UNCHANGED <<ioVars, nextLotId, last, transactions, method, sorted, pc, incomeEvents,
                 remainingLots, added>>

\* return {disposals, incomeEvents, remainingLots, errors, warnings}
Finish ==
  /\ pc = "loop" /\ idx > Len(sorted)
  /\ remainingLots' = getAllRemainingLots(pools)
  /\ pc' = "done"
  /\ UNCHANGED <<ioVars, poolVars, transactions, method, sorted, idx, disposals,
                 incomeEvents, errors, warnings, added, returned>>

Next ==
  \/ Sort
  \/ StepAcquire \/ StepReceive \/ StepIncome
  \/ StepSell \/ StepSpend \/ StepTrade \/ StepSend \/ StepGiftSent
  \/ Finish

\* ------------------------------------------------------------ the replay's inputs
\* Transactions as parseCsv builds them: the fields the kind requires are
\* present and every amount present is positive
Tx(type, dateTime, wallet) ==
  [dateTime |-> dateTime, type |-> type, wallet |-> wallet,
   sentAsset |-> None, sentAmount |-> None, sentAssetPriceUsd |-> None,
   receivedAsset |-> None, receivedAmount |-> None, receivedAssetPriceUsd |-> None,
   feeAmount |-> None, feeAsset |-> None, feeUsd |-> None]

Sent(tx, asset, amount, price) ==
  [tx EXCEPT !.sentAsset = Some(asset), !.sentAmount = Some(amount),
             !.sentAssetPriceUsd = price]

Received(tx, asset, amount, price) ==
  [tx EXCEPT !.receivedAsset = Some(asset), !.receivedAmount = Some(amount),
             !.receivedAssetPriceUsd = price]

Fee(tx, amount, asset, usd) ==
  [tx EXCEPT !.feeAmount = amount, !.feeAsset = asset, !.feeUsd = usd]

Day0 == 0 * TicksPerDay
Day365 == 365 * TicksPerDay
Day366 == 366 * TicksPerDay

\* Acquisitions of 1 BTC at 2 USD into wallet A at instant t
Acquisitions(t) ==
  {Received(Tx(k, t, "A"), "BTC", 1, Some(2))
     : k \in {"BUY", "RECEIVE"} \cup INCOME_TYPES}
  \cup {Received(Tx("GIFT_RECEIVED", t, "A"), "BTC", 1, None)}

\* BUY 1 BTC at 2 USD with a fee of 1 USD, without and with a USD sent leg
BuysWithFee(t) ==
  {Fee(Received(Tx("BUY", t, "A"), "BTC", 1, Some(2)), Some(1), Some("USD"), Some(1)),
   Fee(Received(Sent(Tx("BUY", t, "A"), "USD", 3, None), "BTC", 1, Some(2)),
       Some(1), Some("USD"), Some(1))}

Sells(t) ==
  {Sent(Tx("SELL", t, "A"), "BTC", 1, Some(5)),
   Sent(Tx("SELL", t, "A"), "BTC", 2, Some(5))}

\* SELL 1 BTC at 5 USD with a fee of 1 USD, without and with a USD received leg
SellsWithFee(t) ==
  {Fee(Sent(Tx("SELL", t, "A"), "BTC", 1, Some(5)), Some(1), Some("USD"), Some(1)),
   Fee(Received(Sent(Tx("SELL", t, "A"), "BTC", 1, Some(5)), "USD", 4, None),
       Some(1), Some("USD"), Some(1))}

OtherDisposals(t) ==
  {Sent(Tx("SPEND", t, "A"), "BTC", 1, Some(5)),
   Sent(Tx("GIFT_SENT", t, "A"), "BTC", 1, Some(5)),
   Received(Sent(Tx("TRADE", t, "A"), "BTC", 1, Some(5)), "ETH", 1, Some(7)),
   Sent(Tx("SEND", t, "A"), "BTC", 1, None),
   Fee(Sent(Tx("SEND", t, "A"), "BTC", 1, None), Some(1), Some("BTC"), Some(2))}

TxUniverse ==
  {Received(Tx("BUY", Day0, "A"), "BTC", 1, Some(2))} \cup BuysWithFee(Day0)
  \cup Acquisitions(Day365) \cup Sells(Day365) \cup SellsWithFee(Day365)
  \cup OtherDisposals(Day365)
  \cup {Sent(Tx("SELL", t, "A"), "BTC", 1, Some(5)) : t \in {Day366 - 1, Day366}}
  \cup {Received(Tx("BUY", Day366, "A"), "BTC", 1, Some(2))}

SeqsUpTo(S, n) == UNION {[1..k -> S] : k \in 0..n}

\* calculateTaxes(transactions, method) entered: the pool and the result
\* arrays are new and empty
InitCalc(universe, n) ==
  /\ transactions \in SeqsUpTo(universe, n)
  /\ method \in Methods
  /\ sorted = <<>> /\ pc = "sort" /\ idx = 0
  /\ disposals = <<>> /\ incomeEvents = <<>> /\ errors = <<>>
  /\ warnings = <<>> /\ remainingLots = {}
  /\ added = [p \in Pairs |-> 0]
  /\ returned = [p \in Pairs |-> 0]
  /\ InitIo

Init == InitPool /\ InitCalc(TxUniverse, MaxTx)

Spec == Init /\ [][Next]_vars

\* Longer replays over fewer rows: two lots of different age and basis in
\* wallet A, then the rows that send, trade, give or sell out of them, and
\* a RECEIVE into wallet B
ChainUniverse ==
  {Received(Tx("BUY", Day0, "A"), "BTC", 1, Some(2)),
   Received(Tx("BUY", Day365, "A"), "BTC", 2, Some(3)),
   Received(Tx("MINING", Day365, "A"), "BTC", 1, Some(2)),
   Received(Tx("RECEIVE", Day366, "B"), "BTC", 1, Some(5)),
   Sent(Tx("SELL", Day366, "A"), "BTC", 1, Some(5)),
   Sent(Tx("SPEND", Day366, "A"), "BTC", 1, Some(5)),
   Sent(Tx("GIFT_SENT", Day366, "A"), "BTC", 1, Some(5)),
   Received(Sent(Tx("TRADE", Day366, "A"), "BTC", 1, Some(5)), "ETH", 1, Some(7)),
   Received(Sent(Tx("TRADE", Day366, "A"), "BTC", 1, Some(5)), "ETH", 2, None),
   Sent(Tx("SEND", Day366, "A"), "BTC", 1, None),
   Fee(Sent(Tx("SEND", Day366, "A"), "BTC", 1, None), Some(1), Some("BTC"), Some(2))}

InitChain == InitPool /\ InitCalc(ChainUniverse, MaxTx + 1)

SpecChain == InitChain /\ [][Next]_vars

\* ------------------------------------------------------------ claims
RECURSIVE SumProceeds(_)
SumProceeds(rs) ==
  IF rs = <<>> THEN DecZero ELSE DecAddExact(rs[1].proceeds, SumProceeds(Tail(rs)))

RECURSIVE SumGains(_)
SumGains(rs) ==
  IF rs = <<>> THEN DecZero ELSE DecAddExact(rs[1].gainOrLoss, SumGains(Tail(rs)))

\* C1: a consumeLots that fails with Insufficient lots leaves the pool as
\* it was before the call: every lot of every pair keeps its remaining
\* amount and its place.
C1_FailedConsumeLeavesPool ==
  [][(last'.op = "consumeLots" /\ ~last'.ok) => pools' = pools]_vars

\* C2: lot conservation: for every (wallet, asset) the total amount ever
\* added equals the total amount returned by consumes plus the remaining
\* amounts of the lots now held, after every step of the replay, failed
\* steps included.
C2_LotConservation ==
  \A p \in Pairs : added[p] = returned[p] + SumAmounts(pools[p])

\* The order the method fixes, stated on the lots before the call: lot j
\* comes before lot i when its key is strictly better, or on a tie when it
\* was inserted earlier.
Precedes(m, pre, j, i) ==
  LET a == pre[j]
      b == pre[i]
  IN CASE m = "FIFO" -> \/ a.acquisitionDate < b.acquisitionDate
                        \/ a.acquisitionDate = b.acquisitionDate /\ j < i
       [] m = "LIFO" -> \/ a.acquisitionDate > b.acquisitionDate
                        \/ a.acquisitionDate = b.acquisitionDate /\ j < i
       [] m = "HIFO" -> \/ a.costBasisPerUnit > b.costBasisPerUnit
                        \/ a.costBasisPerUnit = b.costBasisPerUnit /\ j < i

Ahead(m, pre, i) == {j \in 1..Len(pre) : Precedes(m, pre, j, i)}

RECURSIVE SumOver(_, _)
SumOver(pre, S) ==
  IF S = {} THEN 0
  ELSE LET j == CHOOSE x \in S : TRUE IN pre[j].amount + SumOver(pre, S \ {j})

Outstanding(m, pre, i, amount) == amount - SumOver(pre, Ahead(m, pre, i))

Take(m, pre, i, amount) ==
  IF Outstanding(m, pre, i, amount) <= 0 THEN 0
  ELSE Min(pre[i].amount, Outstanding(m, pre, i, amount))

AmountAfter(post, id) ==
  IF \E k \in 1..Len(post) : post[k].id = id
  THEN post[CHOOSE k \in 1..Len(post) : post[k].id = id].amount
  ELSE 0

\* C3: consumeLots walks the lots of the pair in the method's order (FIFO
\* ascending acquisition instant, LIFO descending, HIFO descending basis
\* per unit, ties in insertion order) and takes min(remaining, outstanding)
\* from each, so a later lot is touched only once the earlier ones are
\* used up; the snapshots, and the disposal results built from them, come
\* in that order.
C3_ConsumeInMethodOrder ==
  [][LET l == last'
         pre == pools[<<l.wallet, l.asset>>]
         post == pools'[<<l.wallet, l.asset>>]
         walked == {i \in 1..Len(pre) : Outstanding(l.method, pre, i, l.amount) > 0}
     IN l.op = "processDisposal" =>
          /\ \A i \in 1..Len(pre) :
               AmountAfter(post, pre[i].id)
                 = pre[i].amount - Take(l.method, pre, i, l.amount)
          /\ l.ok =>
               /\ Len(l.consumed) = Cardinality(walked)
               /\ \A i \in walked :
                    l.consumed[1 + Cardinality(Ahead(l.method, pre, i))]
                      = [pre[i] EXCEPT !.amount = Take(l.method, pre, i, l.amount)]
               /\ Len(l.results) = Len(l.consumed)
               /\ \A k \in 1..Len(l.consumed) :
                    /\ l.results[k].lotId = l.consumed[k].id
                    /\ l.results[k].amount = l.consumed[k].amount
                    /\ l.results[k].acquisitionDate = l.consumed[k].acquisitionDate
    ]_vars

\* C3 witness: a disposal that took from two lots against insertion order
C3_Witness ==
  /\ last.op = "processDisposal" /\ last.ok /\ last.method = "LIFO"
  /\ Len(last.consumed) = 2
  /\ last.consumed[1].id > last.consumed[2].id
  /\ last.consumed[1].acquisitionDate > last.consumed[2].acquisitionDate

\* C4: proceeds linearity: a successful processDisposal of amount X with
\* total proceeds P emits results whose amounts sum to X and whose
\* proceeds sum to P exactly.
C4_ProceedsLinearity ==
  (last.op = "processDisposal" /\ last.ok) =>
     /\ SumAmounts(last.results) = last.amount
     /\ SumProceeds(last.results) = DecOfInt(last.proceeds)

GainUnder(m, wallet, asset, amount, proceeds) ==
  SumGains(processDisposal(pools, wallet, asset, amount, proceeds,
                           PoolDisposalDate, "SELL", m).results)

\* C10: method dominance: from the same pool state of one pair, for any
\* amount the pair can satisfy and any total proceeds, the sum of
\* gainOrLoss under HIFO is at most the sum under FIFO and under LIFO.
C10_MethodDominance ==
  \A w \in Wallets, a \in PoolAssets, q \in PoolConsume, r \in PoolProceeds :
     q <= SumAmounts(pools[<<w, a>>]) =>
        /\ DecCmp(GainUnder("HIFO", w, a, q, r), GainUnder("FIFO", w, a, q, r)) <= 0
        /\ DecCmp(GainUnder("HIFO", w, a, q, r), GainUnder("LIFO", w, a, q, r)) <= 0

\* The kinds the spec processes first among transactions of one instant
FirstKinds ==
  {"BUY", "RECEIVE", "GIFT_RECEIVED", "MINING", "STAKING", "AIRDROP", "FORK",
   "INCOME"}

\* Transaction j of the input is processed before transaction i
TxBefore(txs, j, i) ==
  \/ txs[j].dateTime < txs[i].dateTime
  \/ /\ txs[j].dateTime = txs[i].dateTime
     /\ \/ txs[j].type \in FirstKinds /\ txs[i].type \notin FirstKinds
        \/ /\ (txs[j].type \in FirstKinds) = (txs[i].type \in FirstKinds)
           /\ j < i

\* C5: the replay processes transactions in ascending timestamp order;
\* among those of one instant BUY, RECEIVE, GIFT_RECEIVED, MINING, STAKING,
\* AIRDROP, FORK and INCOME come before every other kind and input order
\* is otherwise kept, so a SELL listed before a same-instant BUY that
\* supplies its lots is processed without error.
C5_ProcessingOrder ==
  /\ pc # "sort" =>
       /\ Len(sorted) = Len(transactions)
       /\ \A i \in 1..Len(transactions) :
            sorted[1 + Cardinality({j \in 1..Len(transactions) :
                                      TxBefore(transactions, j, i)})]
              = transactions[i]
  /\ ( /\ pc = "done" /\ Len(transactions) = 2
       /\ transactions[1].type = "SELL" /\ transactions[2].type = "BUY"
       /\ transactions[1].dateTime = transactions[2].dateTime
       /\ transactions[1].wallet = transactions[2].wallet
       /\ transactions[1].sentAsset = transactions[2].receivedAsset
       /\ transactions[1].sentAmount[1] <= transactions[2].receivedAmount[1] )
     => errors = <<>> /\ Len(disposals) = 1

\* C5 witness: a SELL listed before the same-instant BUY, replayed to the end
C5_Witness ==
  /\ pc = "done" /\ Len(transactions) = 2
  /\ transactions[1].type = "SELL" /\ transactions[2].type = "BUY"
  /\ transactions[1].dateTime = transactions[2].dateTime
  /\ sorted[1].type = "BUY" /\ sorted[2].type = "SELL"
  /\ errors = <<>> /\ Len(disposals) = 1

\* The pair holds less than the transaction sends
Insufficient(tx) ==
  /\ tx.type \in {"SELL", "SPEND", "GIFT_SENT", "TRADE", "SEND"}
  /\ SumAmounts(pools[<<tx.wallet, tx.sentAsset[1]>>]) < tx.sentAmount[1]

\* C6: when processing one transaction fails, the replay records exactly
\* one error naming the kind and the timestamp, emits no disposal for it
\* and goes on to the later transactions; a lone SELL with no earlier
\* acquisition yields zero disposals and one Insufficient lots error.
C6_OneErrorPerFailure ==
  /\ [][(pc = "loop" /\ idx <= Len(sorted) /\ Insufficient(sorted[idx])) =>
          /\ Len(errors') = Len(errors) + 1
          /\ SubSeq(errors', 1, Len(errors)) = errors
          /\ errors'[Len(errors')].type = sorted[idx].type
          /\ errors'[Len(errors')].dateTime = sorted[idx].dateTime
          /\ errors'[Len(errors')].message = "Insufficient lots"
          /\ disposals' = disposals
          /\ idx' = idx + 1 /\ pc' = "loop" /\ sorted' = sorted]_vars
  /\ []((pc = "done" /\ Len(transactions) = 1 /\ transactions[1].type = "SELL")
          => /\ disposals = <<>>
             /\ Len(errors) = 1
             /\ errors[1].message = "Insufficient lots")

\* C6 witness: a SELL that failed, then a later BUY that was processed
C6_Witness ==
  /\ pc = "done" /\ Len(sorted) = 2
  /\ sorted[1].type = "SELL" /\ sorted[2].type = "BUY"
  /\ Len(errors) = 1 /\ errors[1].type = "SELL"
  /\ errors[1].dateTime = sorted[1].dateTime
  /\ disposals = <<>>
  /\ Len(pools[<<"A", "BTC">>]) = 1

\* The disposals the step has appended
NewDisposals == SubSeq(disposals', Len(disposals) + 1, Len(disposals'))

\* C7: the total proceeds of a SELL are the gross USD proceeds minus
\* fee_usd, the gross proceeds being the USD received amount when the row
\* has a USD received leg and sent amount x sent unit price otherwise.
C7_SellProceedsNetOfFee ==
  [][(InLoop({"SELL"}) /\ ~Insufficient(sorted[idx])) =>
       LET tx == sorted[idx]
           gross == IF tx.receivedAsset = Some("USD")
                    THEN tx.receivedAmount[1]
                    ELSE tx.sentAmount[1] * OrZero(tx.sentAssetPriceUsd)
       IN SumProceeds(NewDisposals) = DecOfInt(gross - OrZero(tx.feeUsd))]_vars

\* C8: the lot a BUY creates has basis per unit = (USD spent + fee_usd) /
\* received amount, the USD spent being the sent amount when the row has a
\* USD sent leg and received amount x received unit price otherwise.
C8_BuyBasisIncludesFee ==
  [][InLoop({"BUY"}) =>
       LET tx == sorted[idx]
           spent == IF tx.sentAsset = Some("USD")
                    THEN tx.sentAmount[1]
                    ELSE tx.receivedAmount[1] * OrZero(tx.receivedAssetPriceUsd)
           lots == pools'[<<tx.wallet, tx.receivedAsset[1]>>]
       IN /\ Len(lots) = Len(pools[<<tx.wallet, tx.receivedAsset[1]>>]) + 1
          /\ lots[Len(lots)].costBasisPerUnit * tx.receivedAmount[1]
               = spent + OrZero(tx.feeUsd)]_vars

\* C9: every disposal result has days held = floor((disposal instant -
\* acquisition instant) / 1 day) and is long-term exactly when days held
\* > 365: held exactly 365 days is short-term, 366 days is long-term.
C9_HoldingPeriod ==
  \A k \in 1..Len(disposals) :
     LET d == disposals[k]
         diff == d.disposalDate - d.acquisitionDate
     IN /\ d.holdingDays * TicksPerDay <= diff
        /\ diff < (d.holdingDays + 1) * TicksPerDay
        /\ d.isLongTerm = (d.holdingDays > 365)
        /\ diff = 365 * TicksPerDay => ~d.isLongTerm
        /\ diff = 366 * TicksPerDay => d.isLongTerm

\* C9 witness: a lot sold exactly 365 days after it was bought
C9_Witness ==
  \E k \in 1..Len(disposals) :
     /\ disposals[k].disposalDate - disposals[k].acquisitionDate = 365 * TicksPerDay
     /\ disposals[k].holdingDays = 365
     /\ ~disposals[k].isLongTerm

\* C11: when the replay processes a SEND of amount q of an asset from one
\* wallet and the matching RECEIVE of q into another, the lots held at the
\* receiving wallet afterwards carry the basis per unit of the lots the
\* SEND removed (here the one lot the BUY before it created).
C11_TransferKeepsBasis ==
  ( /\ pc = "done" /\ Len(transactions) = 3 /\ errors = <<>>
    /\ transactions[1].type = "BUY" /\ transactions[1].feeUsd = None
    /\ transactions[2].type = "SEND" /\ transactions[3].type = "RECEIVE"
    /\ transactions[1].dateTime < transactions[2].dateTime
    /\ transactions[2].wallet = transactions[1].wallet
    /\ transactions[3].wallet # transactions[2].wallet
    /\ transactions[2].sentAsset = transactions[1].receivedAsset
    /\ transactions[3].receivedAsset = transactions[2].sentAsset
    /\ transactions[2].sentAmount = transactions[1].receivedAmount
    /\ transactions[3].receivedAmount = transactions[2].sentAmount )
  => LET lots == pools[<<transactions[3].wallet, transactions[3].receivedAsset[1]>>]
     IN /\ lots # <<>>
        /\ \A k \in 1..Len(lots) :
             lots[k].costBasisPerUnit = OrZero(transactions[1].receivedAssetPriceUsd)

\* The row carries a positive fee in the asset it sends
FeeInSentAsset(tx) ==
  /\ tx.feeAmount # None /\ tx.feeAsset # None
  /\ tx.feeAsset = tx.sentAsset /\ tx.feeAmount[1] > 0

\* C12: a SEND removes sent_amount from the lots of (source wallet, sent
\* asset) in FIFO order whatever method the replay was given, and yields
\* no disposal result and no income event for the amount sent.
C12_SendConsumesFifo ==
  [][InLoop({"SEND"}) =>
       LET tx == sorted[idx]
           pre == pools[<<tx.wallet, tx.sentAsset[1]>>]
           post == pools'[<<tx.wallet, tx.sentAsset[1]>>]
       IN /\ incomeEvents' = incomeEvents
          /\ \A i \in 1..Len(pre) :
               AmountAfter(post, pre[i].id)
                 <= pre[i].amount - Take("FIFO", pre, i, tx.sentAmount[1])
          /\ ~FeeInSentAsset(tx) =>
               /\ disposals' = disposals
               /\ \A i \in 1..Len(pre) :
                    AmountAfter(post, pre[i].id)
                      = pre[i].amount - Take("FIFO", pre, i, tx.sentAmount[1])
          /\ FeeInSentAsset(tx) =>
               /\ \A k \in 1..Len(NewDisposals) :
                    NewDisposals[k].disposalType = "SPEND"
               /\ SumAmounts(NewDisposals) \in {0, tx.feeAmount[1]}]_vars

\* C12 witness: under LIFO a SEND has taken the older of two lots and the
\* newer one is still whole
C12_Witness ==
  /\ pc = "done" /\ method = "LIFO" /\ Len(sorted) = 3
  /\ sorted[1].type = "BUY" /\ sorted[2].type = "BUY" /\ sorted[3].type = "SEND"
  /\ sorted[1].dateTime < sorted[2].dateTime
  /\ ~FeeInSentAsset(sorted[3])
  /\ errors = <<>> /\ disposals = <<>> /\ incomeEvents = <<>>
  /\ Len(pools[<<"A", "BTC">>]) = 1
  /\ pools[<<"A", "BTC">>][1].id = 2
  /\ pools[<<"A", "BTC">>][1].amount = pools[<<"A", "BTC">>][1].originalAmount

\* C13: when a SEND carries a positive fee in the sent asset, once the sent
\* amount is consumed the fee amount is disposed as kind SPEND with total
\* proceeds fee_usd (0 if absent); if the lots left cannot cover the fee,
\* exactly one warning is appended, no error is recorded, no disposal is
\* emitted and the consumption of the sent amount stays in effect.
C13_SendFeeDisposal ==
  [][(InLoop({"SEND"}) /\ FeeInSentAsset(sorted[idx])
        /\ ~Insufficient(sorted[idx])) =>
       LET tx == sorted[idx]
           pre == pools[<<tx.wallet, tx.sentAsset[1]>>]
           post == pools'[<<tx.wallet, tx.sentAsset[1]>>]
           left == SumAmounts(pre) - tx.sentAmount[1]
       IN /\ errors' = errors
          /\ \A i \in 1..Len(pre) :
               AmountAfter(post, pre[i].id)
                 <= pre[i].amount - Take("FIFO", pre, i, tx.sentAmount[1])
          /\ left >= tx.feeAmount[1] =>
               /\ warnings' = warnings
               /\ NewDisposals # <<>>
               /\ \A k \in 1..Len(NewDisposals) :
                    /\ NewDisposals[k].disposalType = "SPEND"
                    /\ NewDisposals[k].disposalDate = tx.dateTime
               /\ SumAmounts(NewDisposals) = tx.feeAmount[1]
               /\ SumProceeds(NewDisposals) = DecOfInt(OrZero(tx.feeUsd))
               /\ SumAmounts(post) = left - tx.feeAmount[1]
          /\ left < tx.feeAmount[1] =>
               /\ Len(warnings') = Len(warnings) + 1
               /\ SubSeq(warnings', 1, Len(warnings)) = warnings
               /\ disposals' = disposals]_vars

\* C13 witness: the send took the whole lot, the fee could not be covered
\* and was reported as one warning
C13_Witness ==
  /\ pc = "done" /\ Len(sorted) = 2
  /\ sorted[1].type = "BUY" /\ sorted[2].type = "SEND"
  /\ FeeInSentAsset(sorted[2])
  /\ sorted[1].receivedAmount = sorted[2].sentAmount
  /\ errors = <<>> /\ Len(warnings) = 1 /\ disposals = <<>>
  /\ SumAmounts(pools[<<"A", "BTC">>]) = 0

\* ------------------------------------------------------------ csv parser
\* A cell of a CSV row that should hold a number: blank, a decimal literal
\* (v, a whole number here) or text that is no number
Blank == [k |-> "blank", v |-> 0]
Num(n) == [k |-> "num", v |-> n]
Text == [k |-> "text", v |-> 0]

\* A date_time cell that names the instant v on the local clock, without
\* Z or an offset
Local(v) == [k |-> "local", v |-> v]

\* new Date(rawDateTime.trim()) of a date cell that is a date
dateOf(cell, offset) == IF cell.k = "local" THEN cell.v - offset ELSE cell.v

\* hasTimezoneInfo(rawDateTime.trim())
hasTimezoneInfo(cell) == cell.k = "num"

\* const rowNum = i + 2 for the 0-based i of the source; rows are counted
\* from 1 here
rowNumOfNoHeader(i) == i

rowNumOf(i) == i + 1

isBlank(cell) == cell.k = "blank"

\* new Decimal(String(value).trim()), null when blank or when it throws
toDecimalOrNull(cell) == IF cell.k = "num" THEN Some(cell.v) ELSE None

VALID_TRANSACTION_TYPES ==
  {"BUY", "SELL", "TRADE", "SEND", "RECEIVE", "MINING", "STAKING", "AIRDROP",
   "FORK", "SPEND", "GIFT_SENT", "GIFT_RECEIVED", "INCOME"}

RowError(rowNum, field, message) ==
  [row |-> rowNum, field |-> field, message |-> message]

When(cond, e) == IF cond THEN <<e>> ELSE <<>>

\* A string column: "" when blank
OptStr(str) == IF str = "" THEN None ELSE Some(str)

\* One iteration of the loop of parseCsv over a row
parseRow(row, rowNum, offset) ==
  LET dateOk == row.date_time.k \in {"num", "local"}
      typeOk == row.transaction_type \in VALID_TRANSACTION_TYPES
      txType == row.transaction_type
      sentAmount == toDecimalOrNull(row.sent_amount)
      sentAssetPriceUsd == toDecimalOrNull(row.sent_asset_price_usd)
      receivedAmount == toDecimalOrNull(row.received_amount)
      receivedAssetPriceUsd == toDecimalOrNull(row.received_asset_price_usd)
      feeAmount == toDecimalOrNull(row.fee_amount)
      feeUsd == toDecimalOrNull(row.fee_usd)
      NotPositive(field, value) ==
        When(value # None /\ value[1] <= 0,
             RowError(rowNum, field, "must be a positive number"))
      needsSent == txType \in {"SELL", "SPEND", "SEND", "GIFT_SENT", "TRADE"}
      needsReceived ==
        txType \in {"BUY", "RECEIVE", "GIFT_RECEIVED", "TRADE"} \cup INCOME_TYPES
      sentErrors ==
        When(row.sent_asset = "", RowError(rowNum, "sent_asset", "required"))
        \o When(sentAmount = None, RowError(rowNum, "sent_amount", "required"))
      receivedErrors ==
        When(row.received_asset = "", RowError(rowNum, "received_asset", "required"))
        \o When(receivedAmount = None,
                RowError(rowNum, "received_amount", "required"))
      rowErrors ==
        When(isBlank(row.date_time), RowError(rowNum, "date_time", "required"))
        \o When(row.date_time.k = "text", RowError(rowNum, "date_time", "Invalid date"))
        \o When(row.transaction_type = "",
                RowError(rowNum, "transaction_type", "required"))
        \o When(row.transaction_type # "" /\ ~typeOk,
                RowError(rowNum, "transaction_type", "Unknown transaction type"))
        \o When(row.wallet_or_exchange = "",
                RowError(rowNum, "wallet_or_exchange", "required"))
        \o NotPositive("sent_amount", sentAmount)
        \o NotPositive("received_amount", receivedAmount)
        \o NotPositive("fee_amount", feeAmount)
        \o NotPositive("fee_usd", feeUsd)
        \o When(~isBlank(row.sent_amount) /\ sentAmount = None,
                RowError(rowNum, "sent_amount", "Invalid number"))
        \o When(~isBlank(row.received_amount) /\ receivedAmount = None,
                RowError(rowNum, "received_amount", "Invalid number"))
        \o (IF typeOk /\ needsSent THEN sentErrors ELSE <<>>)
        \o (IF typeOk /\ needsReceived THEN receivedErrors ELSE <<>>)
        \o When(typeOk /\ txType \in INCOME_TYPES /\ receivedAssetPriceUsd = None,
                RowError(rowNum, "received_asset_price_usd", "required"))
      rowWarnings ==
        When(dateOk /\ ~hasTimezoneInfo(row.date_time),
             [row |-> rowNum, field |-> "date_time",
              message |-> "Date has no timezone info"])
      tx == [dateTime |-> dateOf(row.date_time, offset), type |-> txType,
             wallet |-> row.wallet_or_exchange,
             sentAsset |-> OptStr(row.sent_asset), sentAmount |-> sentAmount,
             sentAssetPriceUsd |-> sentAssetPriceUsd,
             receivedAsset |-> OptStr(row.received_asset),
             receivedAmount |-> receivedAmount,
             receivedAssetPriceUsd |-> receivedAssetPriceUsd,
             feeAmount |-> feeAmount, feeAsset |-> OptStr(row.fee_asset),
             feeUsd |-> feeUsd]
  IN [errors |-> rowErrors, warnings |-> rowWarnings,
      transactions |-> IF rowErrors = <<>> /\ dateOk /\ typeOk THEN <<tx>> ELSE <<>>]

\* The loop of parseCsv over parsed.data from row i on
RECURSIVE parseFrom(_, _, _)
parseFrom(rows, i, offset) ==
  IF i > Len(rows) THEN [transactions |-> <<>>, errors |-> <<>>, warnings |-> <<>>]
  ELSE LET r == parseRow(rows[i], rowNumOf(i), offset)
           rest == parseFrom(rows, i + 1, offset)
       IN [transactions |-> r.transactions \o rest.transactions,
           errors |-> r.errors \o rest.errors,
           warnings |-> r.warnings \o rest.warnings]

\* errors.push({ row: (err.row ?? -1) + 2, field: "", message: err.message });
\* err.row counts the data rows from 0
papaError(err) ==
  RowError((IF err.row = None THEN -1 ELSE err.row[1]) + 2, "", "papaparse")

\* parseCsv(csvContent): the errors of Papa.parse first, then the rows
parseCsv(rows, perrs, offset) ==
  LET r == parseFrom(rows, 1, offset)
  IN [transactions |-> r.transactions,
      errors |-> [i \in 1..Len(perrs) |-> papaError(perrs[i])] \o r.errors,
      warnings |-> r.warnings]

\* ------------------------------------------------------------ CoinTracker normalizer
\* Number(value) of a cell, null when blank, not a number or <= 0
parseNum(cell) == IF cell.k = "num" /\ cell.v > 0 THEN Some(cell.v) ELSE None

\* String(n) of a number or "" for null
NumStr(n) == IF n = None THEN Blank ELSE Num(n[1])

\* a / b of two JavaScript numbers, for the rows whose quotient is whole
jsDivide(a, b) == a \div b

\* The cost basis itself as the unit price
PriceStrUndivided(costBasis, qty) ==
  IF costBasis # None /\ qty # None THEN Num(costBasis[1]) ELSE Blank

\* receivedCostBasis / qty as a string, "" unless both are present
PriceStr(costBasis, qty) ==
  IF costBasis # None /\ qty # None THEN Num(jsDivide(costBasis[1], qty[1]))
  ELSE Blank

\* a || b || "Unknown"
FirstNonBlank(a, b) == IF a # "" THEN a ELSE IF b # "" THEN b ELSE "Unknown"

TYPE_MAP ==
  [BUY |-> "BUY", SELL |-> "SELL", TRADE |-> "TRADE",
   STAKING_REWARD |-> "STAKING", INTEREST_PAYMENT |-> "STAKING",
   RECEIVE |-> "RECEIVE", SEND |-> "SEND"]

\* The RECEIVE row of a TRANSFER placed at the sent wallet first
transferReceiveWalletSentFirst(ct) == FirstNonBlank(ct.sentWallet, ct.receivedWallet)

\* wallet: receivedWallet || sentWallet || "Unknown"
transferReceiveWallet(ct) == FirstNonBlank(ct.receivedWallet, ct.sentWallet)

\* The native rows one CoinTracker row becomes
normalizeRow(ct) ==
  LET receivedQty == parseNum(ct.receivedQty)
      receivedCostBasis == parseNum(ct.receivedCostBasis)
      sentQty == parseNum(ct.sentQty)
      feeQty == parseNum(ct.feeQty)
      feeCostBasis == parseNum(ct.feeCostBasis)
      feeUsd == IF ct.feeCur = "USD" /\ feeQty # None THEN NumStr(feeQty)
                ELSE NumStr(feeCostBasis)
      nativeType == TYPE_MAP[ct.Type]
      row == [date_time |-> ct.Date, transaction_type |-> "",
              sent_asset |-> "", sent_amount |-> Blank,
              sent_asset_price_usd |-> Blank,
              received_asset |-> "", received_amount |-> Blank,
              received_asset_price_usd |-> Blank,
              fee_amount |-> Blank, fee_asset |-> "", fee_usd |-> Blank,
              wallet_or_exchange |-> "", tx_hash |-> ct.txHash]
      sendRow == [row EXCEPT !.transaction_type = "SEND",
                    !.sent_asset = ct.sentCur, !.sent_amount = NumStr(sentQty),
                    !.fee_amount = NumStr(feeQty), !.fee_asset = ct.feeCur,
                    !.fee_usd = feeUsd,
                    !.wallet_or_exchange = FirstNonBlank(ct.sentWallet, ct.receivedWallet)]
      receiveRow == [row EXCEPT !.transaction_type = "RECEIVE",
                       !.received_asset = ct.receivedCur,
                       !.received_amount = NumStr(receivedQty),
                       !.received_asset_price_usd = PriceStr(receivedCostBasis, receivedQty),
                       !.wallet_or_exchange = transferReceiveWallet(ct)]
      receivedPriceUsd ==
        IF nativeType \in {"BUY", "STAKING", "RECEIVE", "TRADE"}
        THEN PriceStr(receivedCostBasis, receivedQty) ELSE Blank
      sentPriceUsd ==
        IF nativeType \in {"SELL", "TRADE"}
        THEN PriceStr(receivedCostBasis, sentQty) ELSE Blank
      wallet ==
        IF nativeType \in {"SELL", "SEND", "TRADE"}
        THEN FirstNonBlank(ct.sentWallet, ct.receivedWallet)
        ELSE FirstNonBlank(ct.receivedWallet, ct.sentWallet)
  IN IF ct.Date.k # "num" THEN <<>>
     ELSE IF ct.Type = "RECEIVE" /\ ct.receivedCur = "USD" THEN <<>>
     ELSE IF ct.Type = "SEND" /\ ct.sentCur = "USD" THEN <<>>
     ELSE IF ct.Type = "TRANSFER" THEN <<sendRow, receiveRow>>
     ELSE IF ct.Type \notin DOMAIN TYPE_MAP THEN <<>>
     ELSE <<[row EXCEPT !.transaction_type = nativeType,
               !.sent_asset = IF sentQty # None THEN ct.sentCur ELSE "",
               !.sent_amount = NumStr(sentQty),
               !.sent_asset_price_usd = sentPriceUsd,
               !.received_asset = IF receivedQty # None THEN ct.receivedCur ELSE "",
               !.received_amount = NumStr(receivedQty),
               !.received_asset_price_usd = receivedPriceUsd,
               !.fee_amount = NumStr(feeQty), !.fee_asset = ct.feeCur,
               !.fee_usd = feeUsd, !.wallet_or_exchange = wallet]>>

RECURSIVE normalizeFrom(_, _)
normalizeFrom(cts, i) ==
  IF i > Len(cts) THEN <<>> ELSE normalizeRow(cts[i]) \o normalizeFrom(cts, i + 1)

\* normalizeCoinTracker(csvContent).csvContent, as rows
normalizeCoinTracker(cts) == normalizeFrom(cts, 1)

\* ------------------------------------------------------------ price enrichment
\* String.prototype.toUpperCase on the tickers of the model
toUpperCase(str) ==
  CASE str = "btc" -> "BTC" [] str = "eth" -> "ETH" [] str = "usd" -> "USD"
    [] OTHER -> str

\* asset && asset.toUpperCase() !== "USD" && amount && !price
needsPrice(asset, amount, price) ==
  asset # "" /\ toUpperCase(asset) # "USD" /\ ~isBlank(amount) /\ isBlank(price)

\* Set.prototype.add on a set kept in insertion order
SetAdd(set, x) ==
  IF \E k \in 1..Len(set) : set[k] = x THEN set ELSE Append(set, x)

\* The first loop of enrichPrices: the tickers that need a price, the
\* received leg of a row before its sent leg
RECURSIVE tickersNeeded(_, _, _)
tickersNeeded(rows, i, acc) ==
  IF i > Len(rows) THEN acc
  ELSE LET row == rows[i]
           r == IF needsPrice(row.received_asset, row.received_amount,
                              row.received_asset_price_usd)
                THEN SetAdd(acc, toUpperCase(row.received_asset)) ELSE acc
           t == IF needsPrice(row.sent_asset, row.sent_amount,
                              row.sent_asset_price_usd)
                THEN SetAdd(r, toUpperCase(row.sent_asset)) ELSE r
       IN tickersNeeded(rows, i + 1, t)

\* What fetchDailyPrices may give for a ticker: it throws ("fail"), or it
\* returns a map from days to close prices, which may be empty
Fetched(m) == [k |-> "prices", m |-> m]
FetchFailed == [k |-> "fail", m |-> <<>>]

\* A fetch loop that ends at the first ticker whose fetch throws
RECURSIVE fetchLoopStopOnError(_, _, _, _)
fetchLoopStopOnError(tickers, i, answer, acc) ==
  IF i > Len(tickers) THEN acc
  ELSE LET ticker == tickers[i]
           a == answer[ticker]
           called == Append(acc.calls, [ticker |-> ticker, answer |-> a])
       IN IF a.k = "fail"
          THEN [acc EXCEPT !.calls = called,
                           !.warnings = Append(@, <<"Failed to fetch prices for", ticker>>)]
          ELSE fetchLoopStopOnError(tickers, i + 1, answer,
                 IF DOMAIN a.m = {}
                 THEN [acc EXCEPT !.calls = called,
                         !.warnings = Append(@, <<"No price data returned for", ticker>>)]
                 ELSE [acc EXCEPT !.calls = called,
                         !.cache = [t \in DOMAIN @ \cup {ticker} |->
                                      IF t = ticker THEN a.m ELSE @[t]]])

\* for (const ticker of tickersNeeded) { try { ... } catch { warn } }
RECURSIVE fetchLoop(_, _, _, _)
fetchLoop(tickers, i, answer, acc) ==
  IF i > Len(tickers) THEN acc
  ELSE LET ticker == tickers[i]
           a == answer[ticker]
           called == Append(acc.calls, [ticker |-> ticker, answer |-> a])
       IN fetchLoop(tickers, i + 1, answer,
            IF a.k = "fail"
            THEN [acc EXCEPT !.calls = called,
                    !.warnings = Append(@, <<"Failed to fetch prices for", ticker>>)]
            ELSE IF DOMAIN a.m = {}
            THEN [acc EXCEPT !.calls = called,
                    !.warnings = Append(@, <<"No price data returned for", ticker>>)]
            ELSE [acc EXCEPT !.calls = called,
                    !.cache = [t \in DOMAIN @ \cup {ticker} |->
                                 IF t = ticker THEN a.m ELSE @[t]]])

\* The day a date_time cell names: its first ten characters
dateStr(cell) == cell.v \div TicksPerDay

\* lookupPrice(cache, ticker, dateStr): the day itself, else the day
\* before, else the day after, else null
lookupPrice(cache, ticker, day) ==
  IF ticker \notin DOMAIN cache THEN None
  ELSE LET priceMap == cache[ticker]
       IN IF day \in DOMAIN priceMap THEN Some(priceMap[day])
          ELSE IF day - 1 \in DOMAIN priceMap THEN Some(priceMap[day - 1])
          ELSE IF day + 1 \in DOMAIN priceMap THEN Some(priceMap[day + 1])
          ELSE None

\* One row of the second loop: the row with its blank prices filled, and
\* how many were filled
fillRow(row, cache) ==
  IF isBlank(row.date_time) THEN [row |-> row, filled |-> 0]
  ELSE LET day == dateStr(row.date_time)
           rp == IF needsPrice(row.received_asset, row.received_amount,
                               row.received_asset_price_usd)
                 THEN lookupPrice(cache, toUpperCase(row.received_asset), day)
                 ELSE None
           sp == IF needsPrice(row.sent_asset, row.sent_amount,
                               row.sent_asset_price_usd)
                 THEN lookupPrice(cache, toUpperCase(row.sent_asset), day)
                 ELSE None
       IN [row |-> [row EXCEPT
                      !.received_asset_price_usd = IF rp = None THEN @ ELSE Num(rp[1]),
                      !.sent_asset_price_usd = IF sp = None THEN @ ELSE Num(sp[1])],
           filled |-> (IF rp = None THEN 0 ELSE 1) + (IF sp = None THEN 0 ELSE 1)]

RECURSIVE SumFilled(_, _, _)
SumFilled(rows, cache, i) ==
  IF i = 0 THEN 0 ELSE SumFilled(rows, cache, i - 1) + fillRow(rows[i], cache).filled

\* enrichPrices(csvContent) given what the oracle answers for each ticker
enrichPrices(rows, answer) ==
  LET tickers == tickersNeeded(rows, 1, <<>>)
      nothing == [calls |-> <<>>, warnings |-> <<>>, cache |-> <<>>]
      f == fetchLoop(tickers, 1, answer, nothing)
      pricesFilled == SumFilled(rows, f.cache, Len(rows))
  IN IF rows = <<>> \/ tickers = <<>>
     THEN [csvContent |-> rows, warnings |-> <<>>, pricesFilled |-> 0,
           calls |-> <<>>]
     ELSE [csvContent |-> [i \in 1..Len(rows) |-> fillRow(rows[i], f.cache).row],
           warnings |-> f.warnings \o
             (IF pricesFilled > 0 THEN <<<<"Auto-filled", pricesFilled>>>> ELSE <<>>),
           pricesFilled |-> pricesFilled, calls |-> f.calls]

\* The answers of the oracle: a failure, no data, a price of 7 on the days
\* of Day0 and Day365, a price of 9 on the day of Day366 only
OracleAnswers ==
  {FetchFailed, Fetched(<<>>),
   Fetched([d \in {dateStr(Num(Day0)), dateStr(Num(Day365))} |-> 7]),
   Fetched([d \in {dateStr(Num(Day366))} |-> 9])}

TickersOf(rows) ==
  LET t == tickersNeeded(rows, 1, <<>>) IN {t[k] : k \in 1..Len(t)}

\* const enrichment = await enrichPrices(csvToParse); csvToParse =
\* enrichment.csvContent; normalizationWarnings = [..., ...enrichment.warnings]
Enrich ==
  /\ pc = "enrich"
  /\ \E answer \in [TickersOf(csvContent) -> OracleAnswers] :
       LET e == enrichPrices(csvContent, answer)
       IN /\ csvContent' = e.csvContent
          /\ oracleCalls' = oracleCalls \o e.calls
          /\ normalizationWarnings' = normalizationWarnings \o e.warnings
  /\ pc' = "parse"
  /\ UNCHANGED <<poolVars, transactions, method, sorted, idx, disposals,
                 incomeEvents, errors, warnings, remainingLots, added, returned,
                 ctContent, parseResult, taxYear, report, tz, papaErrors>>

\* csvToParse = normalizeCoinTracker(csvContent).csvContent
Normalize ==
  /\ pc = "normalize"
  /\ csvContent' = normalizeCoinTracker(ctContent)
  /\ pc' = "enrich"
  /\ UNCHANGED <<poolVars, transactions, method, sorted, idx, disposals,
                 incomeEvents, errors, warnings, remainingLots, added, returned,
                 ctContent, parseResult, taxYear, report, tz, papaErrors,
                 oracleCalls, normalizationWarnings>>

\* parseResult = parseCsv(csvToParse), then calculateTaxes(parseResult.transactions)
Parse ==
  /\ pc = "parse"
  /\ LET r == parseCsv(csvContent, papaErrors, tz)
     IN /\ transactions' = r.transactions
        /\ parseResult' =
             [errors |-> r.errors,
              warnings |-> r.warnings \o
                [i \in 1..Len(normalizationWarnings) |->
                   [row |-> 0, field |-> "", message |-> normalizationWarnings[i]]]]
  /\ pc' = "sort"
  /\ UNCHANGED <<poolVars, method, sorted, idx, disposals, incomeEvents, errors,
                 warnings, remainingLots, added, returned, ctContent, csvContent,
                 taxYear, report, tz, papaErrors,
                 oracleCalls, normalizationWarnings>>

\* CoinTracker TRANSFER rows of BTC between wallets A and B
TransferRows ==
  {[Date |-> Num(t), Type |-> "TRANSFER",
    receivedQty |-> Num(q), receivedCur |-> "BTC", receivedCostBasis |-> cb,
    sentQty |-> Num(sq), sentCur |-> "BTC",
    feeQty |-> fee, feeCur |-> "BTC", feeCostBasis |-> fcb,
    receivedWallet |-> rw, sentWallet |-> sw, txHash |-> "h1"]
     : t \in {Day0, Day365}, q \in {1, 2}, sq \in {1, 2},
       cb \in {Blank, Num(2), Num(4)}, fee \in {Blank, Num(1)},
       fcb \in {Blank, Num(3)}, rw \in {"A", "B"}, sw \in {"", "A", "B"}}

InitTransfer ==
  /\ InitPool
  /\ ctContent \in {<<ct>> : ct \in TransferRows}
  /\ csvContent = <<>>
  /\ parseResult = [errors |-> <<>>, warnings |-> <<>>]
  /\ taxYear = 0 /\ report = None /\ tz = 0 /\ papaErrors = <<>>
  /\ oracleCalls = <<>> /\ normalizationWarnings = <<>>
  /\ transactions = <<>> /\ method \in Methods
  /\ sorted = <<>> /\ pc = "normalize" /\ idx = 0
  /\ disposals = <<>> /\ incomeEvents = <<>> /\ errors = <<>>
  /\ warnings = <<>> /\ remainingLots = {}
  /\ added = [p \in Pairs |-> 0]
  /\ returned = [p \in Pairs |-> 0]

NextTransfer == Normalize \/ Enrich \/ Parse \/ Sort \/ StepReceive \/ StepSend \/ Finish

\* One CoinTracker TRANSFER normalized, parsed and replayed
SpecTransfer == InitTransfer /\ [][NextTransfer]_vars

LotById(lots, id) == lots[CHOOSE k \in 1..Len(lots) : lots[k].id = id]

\* C15: GIFT_SENT disposes sent_amount under the selected method with total
\* proceeds 0: every disposal result it yields has proceeds 0 and
\* gainOrLoss = -(consumed amount x basis per unit of the lot).
C15_GiftAtZeroProceeds ==
  [][(InLoop({"GIFT_SENT"}) /\ ~Insufficient(sorted[idx])) =>
       LET tx == sorted[idx]
           pre == pools[<<tx.wallet, tx.sentAsset[1]>>]
           post == pools'[<<tx.wallet, tx.sentAsset[1]>>]
       IN /\ NewDisposals # <<>>
          /\ SumAmounts(NewDisposals) = tx.sentAmount[1]
          /\ \A i \in 1..Len(pre) :
               AmountAfter(post, pre[i].id)
                 = pre[i].amount - Take(method, pre, i, tx.sentAmount[1])
          /\ \A k \in 1..Len(NewDisposals) :
               LET d == NewDisposals[k]
                   lot == LotById(pre, d.lotId)
               IN /\ d.disposalType = "GIFT_SENT"
                  /\ d.proceeds = DecZero
                  /\ d.costBasis = DecOfInt(d.amount * lot.costBasisPerUnit)
                  /\ DecAddExact(d.gainOrLoss, d.costBasis) = DecZero]_vars

\* C15 witness: a gift out of the dearer of two lots, at a loss of its basis
C15_Witness ==
  /\ pc = "done" /\ method = "HIFO" /\ Len(sorted) = 3
  /\ sorted[1].type = "BUY" /\ sorted[2].type = "BUY"
  /\ sorted[3].type = "GIFT_SENT"
  /\ Len(disposals) = 1
  /\ disposals[1].lotId = 2
  /\ disposals[1].proceeds = DecZero
  /\ disposals[1].costBasis = DecOfInt(3)
  /\ disposals[1].gainOrLoss = DecNeg(DecOfInt(3))

\* C16: a TRADE disposes the sent leg from (wallet, sent asset) under the
\* selected method and then adds exactly one lot for the received leg in
\* the same wallet, with amount = received amount, basis per unit =
\* received unit price (0 if absent) and acquisition instant = the
\* trade's timestamp.
C16_TradeDisposesThenAcquires ==
  [][(InLoop({"TRADE"}) /\ ~Insufficient(sorted[idx])) =>
       LET tx == sorted[idx]
           sentPair == <<tx.wallet, tx.sentAsset[1]>>
           recvPair == <<tx.wallet, tx.receivedAsset[1]>>
           pre == pools[sentPair]
           new == pools'[recvPair][Len(pools'[recvPair])]
       IN /\ NewDisposals # <<>>
          /\ \A k \in 1..Len(NewDisposals) :
               /\ NewDisposals[k].disposalType = "TRADE"
               /\ NewDisposals[k].asset = tx.sentAsset[1]
          /\ SumAmounts(NewDisposals) = tx.sentAmount[1]
          /\ sentPair # recvPair =>
               /\ \A i \in 1..Len(pre) :
                    AmountAfter(pools'[sentPair], pre[i].id)
                      = pre[i].amount - Take(method, pre, i, tx.sentAmount[1])
               /\ Len(pools'[recvPair]) = Len(pools[recvPair]) + 1
               /\ SubSeq(pools'[recvPair], 1, Len(pools[recvPair])) = pools[recvPair]
          /\ \A p \in Pairs \ {sentPair, recvPair} : pools'[p] = pools[p]
          /\ new.amount = tx.receivedAmount[1]
          /\ new.originalAmount = tx.receivedAmount[1]
          /\ new.asset = tx.receivedAsset[1]
          /\ new.wallet = tx.wallet
          /\ new.acquisitionDate = tx.dateTime
          /\ new.costBasisPerUnit
               = (IF tx.receivedAssetPriceUsd = None THEN 0
                  ELSE tx.receivedAssetPriceUsd[1])
          /\ \A p \in Pairs : \A k \in 1..Len(pools[p]) : pools[p][k].id # new.id]_vars

\* C16 witness: under LIFO a trade out of the newer of two BTC lots that
\* left one ETH lot valued at the received price
C16_Witness ==
  /\ pc = "done" /\ method = "LIFO" /\ Len(sorted) = 3
  /\ sorted[1].type = "BUY" /\ sorted[2].type = "BUY" /\ sorted[3].type = "TRADE"
  /\ sorted[3].receivedAssetPriceUsd = Some(7)
  /\ Len(disposals) = 1 /\ disposals[1].lotId = 2
  /\ Len(pools[<<"A", "ETH">>]) = 1
  /\ pools[<<"A", "ETH">>][1].costBasisPerUnit = 7
  /\ pools[<<"A", "ETH">>][1].acquisitionDate = sorted[3].dateTime

\* ------------------------------------------------------------ income case on Decimal prices
\* The largest whole amount of an income transaction
MaxAmount == 3

\* 9.9999999999999999999, a unit price of Precision significant digits
PriceNines == [neg |-> FALSE, c |-> [i \in 1..Precision |-> 9], e |-> 1 - Precision]

\* 0.5
PriceHalf == [neg |-> FALSE, c |-> <<5>>, e |-> -1]

IncomePrices == {None, Some(DecOfInt(2)), Some(PriceHalf), Some(PriceNines)}

\* Transactions of every kind whose received leg is priced by a Decimal
IncomeInputs ==
  { [Tx(type, Day0, "A") EXCEPT !.receivedAsset = asset,
                                !.receivedAmount = amount,
                                !.receivedAssetPriceUsd = price] :
      type \in VALID_TRANSACTION_TYPES, asset \in {None, Some("BTC")},
      amount \in {None} \cup {Some(n) : n \in 1..MaxAmount},
      price \in IncomePrices }

InitIncome ==
  /\ pools = EmptyPools /\ nextLotId = 1 /\ last = NoCall
  /\ transactions \in {<<tx>> : tx \in IncomeInputs}
  /\ method = "FIFO"
  /\ sorted = transactions /\ pc = "income" /\ idx = 1
  /\ disposals = <<>> /\ incomeEvents = <<>> /\ errors = <<>>
  /\ warnings = <<>> /\ remainingLots = {}
  /\ added = [p \in Pairs |-> 0]
  /\ returned = [p \in Pairs |-> 0]
  /\ InitIo

\* const event = classifyIncome(tx); if (event) { incomeEvents.push(event);
\* pool.addLot(createIncomeLot(event, nextLotId())) }
IncomeCase ==
  /\ pc = "income" /\ idx <= Len(sorted)
  /\ LET ev == classifyIncome(sorted[idx])
     IN IF ev = None
        THEN UNCHANGED <<pools, nextLotId, incomeEvents, added>>
        ELSE /\ incomeEvents' = Append(incomeEvents, ev[1])
             /\ pools' = addLot(pools, createIncomeLot(ev[1], nextLotId))
             /\ nextLotId' = nextLotId + 1
             /\ added' = Bump(added, ev[1].wallet, ev[1].asset, ev[1].amount)
  /\ idx' = idx + 1
  /\ UNCHANGED <<ioVars, last, transactions, method, sorted, pc, disposals, errors,
                 warnings, remainingLots, returned>>

SpecIncome == InitIncome /\ [][IncomeCase]_vars

\* The exact product of a Decimal and a whole number
DecTimesExact(x, k) == Canon((k < 0) # x.neg, NatMulSmall(x.c, Abs(k)), x.e)

\* Claim C17: a transaction of an income kind that carries a received asset,
\* amount and unit price appends exactly one income event whose FMV is
\* amount x unit price and adds exactly one lot of that amount whose basis
\* per unit equals the unit price; a transaction of any other kind is
\* classified as nothing.
C17_IncomeEventAndLot ==
  [][IncomeCase =>
      LET tx == sorted[idx]
          complete == tx.receivedAsset # None /\ tx.receivedAmount # None
                      /\ tx.receivedAssetPriceUsd # None
          lots == pools'[<<tx.wallet, tx.receivedAsset[1]>>]
      IN /\ (tx.type \notin INCOME_TYPES) =>
              (classifyIncome(tx) = None /\ incomeEvents' = incomeEvents
               /\ pools' = pools)
         /\ (tx.type \in INCOME_TYPES /\ complete) =>
              /\ Len(incomeEvents') = Len(incomeEvents) + 1
              /\ DecCmp(incomeEvents'[Len(incomeEvents')].fairMarketValueUsd,
                        DecTimesExact(tx.receivedAssetPriceUsd[1],
                                      tx.receivedAmount[1])) = 0
              /\ Len(lots) = 1
              /\ lots[1].amount = tx.receivedAmount[1]
              /\ DecCmp(lots[1].costBasisPerUnit, tx.receivedAssetPriceUsd[1]) = 0
  ]_vars

\* ------------------------------------------------------------ report generator
\* A calendar year of 365 days, counted from the year of instant 0
DaysPerYear == 365
TicksPerYear == DaysPerYear * TicksPerDay

\* Date.prototype.getUTCFullYear
getUTCFullYear(t) == t \div TicksPerYear

\* Date.prototype.getFullYear: the year of the instant on the local clock
getFullYear(t, offset) == (t + offset) \div TicksPerYear

disposalToForm8949Row(d) ==
  [description |-> <<d.amount, d.asset>>, dateAcquired |-> d.acquisitionDate,
   dateSold |-> d.disposalDate, proceeds |-> d.proceeds,
   costBasis |-> d.costBasis, gainOrLoss |-> d.gainOrLoss,
   isLongTerm |-> d.isLongTerm, holdingDays |-> d.holdingDays]

generateForm8949(ds) == [i \in 1..Len(ds) |-> disposalToForm8949Row(ds[i])]

\* row.gainOrLoss.gte(0)
DecGte0(x) == DecCmp(x, DecZero) >= 0

\* The four running totals after the rows from position i on
RECURSIVE ScheduleDLoop(_, _, _)
ScheduleDLoop(rows, i, acc) ==
  IF i > Len(rows) THEN acc
  ELSE LET row == rows[i]
           g == row.gainOrLoss
       IN ScheduleDLoop(rows, i + 1,
            IF row.isLongTerm
            THEN IF DecGte0(g)
                 THEN [acc EXCEPT !.longTermGains = DecPlus(@, g)]
                 ELSE [acc EXCEPT !.longTermLosses = DecPlus(@, g)]
            ELSE IF DecGte0(g)
                 THEN [acc EXCEPT !.shortTermGains = DecPlus(@, g)]
                 ELSE [acc EXCEPT !.shortTermLosses = DecPlus(@, g)])

generateScheduleD(rows) ==
  LET t == ScheduleDLoop(rows, 1,
             [shortTermGains |-> DecZero, shortTermLosses |-> DecZero,
              longTermGains |-> DecZero, longTermLosses |-> DecZero])
      netShortTerm == DecPlus(t.shortTermGains, t.shortTermLosses)
      netLongTerm == DecPlus(t.longTermGains, t.longTermLosses)
  IN [shortTermGains |-> t.shortTermGains, shortTermLosses |-> t.shortTermLosses,
      longTermGains |-> t.longTermGains, longTermLosses |-> t.longTermLosses,
      netShortTerm |-> netShortTerm, netLongTerm |-> netLongTerm,
      totalNetGainOrLoss |-> DecPlus(netShortTerm, netLongTerm)]

generateReport(ds, income, lots, year, costBasisMethod, errs, warns, offset) ==
  LET yearDisposals == SelectSeq(ds, LAMBDA d : getFullYear(d.disposalDate, offset) = year)
      yearIncome == SelectSeq(income, LAMBDA e : getFullYear(e.date, offset) = year)
      form8949Rows == generateForm8949(yearDisposals)
  IN [taxYear |-> year, costBasisMethod |-> costBasisMethod,
      disposals |-> yearDisposals, incomeEvents |-> yearIncome,
      remainingLots |-> lots, form8949Rows |-> form8949Rows,
      scheduleDSummary |-> generateScheduleD(form8949Rows),
      errors |-> errs, warnings |-> warns]

\* const report = generateReport(calcResult.disposals, ..., taxYear, method,
\* [...parseResult.errors, ...calcResult.errors], [...warnings])
GenerateReport ==
  /\ pc = "done"
  /\ report' = Some(generateReport(disposals, incomeEvents, remainingLots, taxYear,
                                    method, parseResult.errors \o errors,
                                    parseResult.warnings \o warnings, tz))
  /\ pc' = "reported"
  /\ UNCHANGED <<poolVars, transactions, method, sorted, idx, disposals,
                 incomeEvents, errors, warnings, remainingLots, added, returned,
                 ctContent, csvContent, parseResult, taxYear, tz, papaErrors,
                 oracleCalls, normalizationWarnings>>

\* The most results calculateTaxes hands to the report
MaxRows == 3

\* The last instant of year 0 and the first instant of year 1
YearEnd == TicksPerYear - 1
YearStart == TicksPerYear

\* <<lot amount, amount consumed in all, proceeds of the disposal, basis per unit>>
\* of the lot a result comes from: a gain of 66.666666666666666667, a loss
\* of 133.33333333333333333 and a result of 0
GainKinds == {<<2, 3, 100, 0>>, <<2, 3, 100, 100>>, <<1, 1, 5, 5>>}

ReportDisposals ==
  { disposalResult([id |-> 1, asset |-> "BTC", amount |-> k[1],
                    originalAmount |-> k[1], costBasisPerUnit |-> k[4],
                    acquisitionDate |-> date - held, acquisitionType |-> "BUY",
                    wallet |-> "A"],
                   "BTC", k[2], k[3], date, "SELL") :
      k \in GainKinds, date \in {YearEnd, YearStart}, held \in {0, Day366} }

ReportIncome ==
  { classifyIncome(DecPriced(Received(Tx("MINING", date, "A"), "BTC", 1, Some(2))))[1] :
      date \in {YearEnd, YearStart} }

ReportLots ==
  { {}, {[id |-> 2, asset |-> "BTC", amount |-> 1, originalAmount |-> 1,
          costBasisPerUnit |-> 2, acquisitionDate |-> Day0,
          acquisitionType |-> "BUY", wallet |-> "A"]} }

\* The offsets of the local clock: half a day behind UTC, UTC, half a day ahead
TimeZones == {0 - (TicksPerDay \div 2), 0, TicksPerDay \div 2}

\* calculateTaxes has returned; the request names the target year
InitReport ==
  /\ pools = EmptyPools /\ nextLotId = 1 /\ last = NoCall
  /\ transactions = <<>> /\ method = "FIFO" /\ sorted = <<>>
  /\ pc = "done" /\ idx = 1
  /\ disposals \in SeqsUpTo(ReportDisposals, MaxRows)
  /\ incomeEvents \in SeqsUpTo(ReportIncome, 1)
  /\ errors = <<>> /\ warnings = <<>>
  /\ remainingLots \in ReportLots
  /\ added = [p \in Pairs |-> 0]
  /\ returned = [p \in Pairs |-> 0]
  /\ ctContent = <<>> /\ csvContent = <<>>
  /\ parseResult = [errors |-> <<>>, warnings |-> <<>>]
  /\ taxYear \in {0, 1} /\ report = None
  /\ tz \in TimeZones /\ papaErrors = <<>>
  /\ oracleCalls = <<>> /\ normalizationWarnings = <<>>

SpecReport == InitReport /\ [][GenerateReport]_vars

\* Claim C18: the report holds a disposal exactly when the UTC calendar year
\* of its disposal instant is the target year, an income event exactly when
\* the UTC calendar year of its date is the target year, and the remaining
\* lots as they were given, whatever their year.
C18_ReportYearFilter ==
  report # None =>
    /\ report[1].disposals =
         SelectSeq(disposals, LAMBDA d : getUTCFullYear(d.disposalDate) = taxYear)
    /\ report[1].incomeEvents =
         SelectSeq(incomeEvents, LAMBDA e : getUTCFullYear(e.date) = taxYear)
    /\ report[1].remainingLots = remainingLots

\* The Decimal sum of a sequence of Decimals, added in order
RECURSIVE DecSum(_, _)
DecSum(xs, i) == IF i = 0 THEN DecZero ELSE DecPlus(DecSum(xs, i - 1), xs[i])

\* The gainOrLoss of the rows of one holding term and one sign, in order
GainsOf(rows, long, gain) ==
  LET sel == SelectSeq(rows, LAMBDA r : r.isLongTerm = long /\ DecGte0(r.gainOrLoss) = gain)
  IN [i \in 1..Len(sel) |-> sel[i].gainOrLoss]

SumOfGains(rows, long, gain) ==
  LET g == GainsOf(rows, long, gain) IN DecSum(g, Len(g))

\* Claim C19: in the Schedule D summary the short-term gains are the sum of
\* the non-negative gainOrLoss of the short-term rows, the short-term losses
\* the sum of the negative ones (a value <= 0), long-term likewise; each net
\* is gains + losses; the total is net short + net long and equals the sum of
\* gainOrLoss over all disposals of the report's year.
C19_ScheduleDSummary ==
  report # None =>
    LET sd == report[1].scheduleDSummary
        rows == report[1].form8949Rows
        all == [i \in 1..Len(report[1].disposals) |-> report[1].disposals[i].gainOrLoss]
    IN /\ sd.shortTermGains = SumOfGains(rows, FALSE, TRUE)
       /\ sd.shortTermLosses = SumOfGains(rows, FALSE, FALSE)
       /\ sd.longTermGains = SumOfGains(rows, TRUE, TRUE)
       /\ sd.longTermLosses = SumOfGains(rows, TRUE, FALSE)
       /\ DecCmp(sd.shortTermLosses, DecZero) <= 0
       /\ DecCmp(sd.longTermLosses, DecZero) <= 0
       /\ sd.netShortTerm = DecPlus(sd.shortTermGains, sd.shortTermLosses)
       /\ sd.netLongTerm = DecPlus(sd.longTermGains, sd.longTermLosses)
       /\ sd.totalNetGainOrLoss = DecPlus(sd.netShortTerm, sd.netLongTerm)
       /\ DecCmp(sd.totalNetGainOrLoss, DecSum(all, Len(all))) = 0

\* ------------------------------------------------------------ parseCsv on one native row
\* What a numeric cell of a row may hold
NumericCells == {Blank, Num(2), Num(0), Num(-1), Text}

\* TRADE and BUY rows of one date and wallet, every numeric cell varied
ParseRows ==
  { [date_time |-> Num(Day0), transaction_type |-> type,
     sent_asset |-> IF type = "TRADE" THEN "BTC" ELSE "",
     sent_amount |-> sa, sent_asset_price_usd |-> sp,
     received_asset |-> "ETH", received_amount |-> ra,
     received_asset_price_usd |-> rp,
     fee_amount |-> fa, fee_asset |-> IF fa = Blank THEN "" ELSE "ETH",
     fee_usd |-> fu, wallet_or_exchange |-> "A"] :
      type \in {"TRADE", "BUY"},
      sa \in NumericCells, sp \in NumericCells, ra \in NumericCells,
      rp \in NumericCells, fa \in NumericCells, fu \in NumericCells }

\* importCsv has the native rows in hand and is about to parse them
InitParse ==
  /\ InitPool
  /\ ctContent = <<>>
  /\ csvContent \in {<<row>> : row \in ParseRows}
  /\ parseResult = [errors |-> <<>>, warnings |-> <<>>]
  /\ taxYear = 0 /\ report = None /\ tz = 0 /\ papaErrors = <<>>
  /\ oracleCalls = <<>> /\ normalizationWarnings = <<>>
  /\ transactions = <<>> /\ method = "FIFO"
  /\ sorted = <<>> /\ pc = "parse" /\ idx = 0
  /\ disposals = <<>> /\ incomeEvents = <<>> /\ errors = <<>>
  /\ warnings = <<>> /\ remainingLots = {}
  /\ added = [p \in Pairs |-> 0]
  /\ returned = [p \in Pairs |-> 0]

SpecParse == InitParse /\ [][Parse]_vars

NumericFields ==
  {"sent_amount", "sent_asset_price_usd", "received_amount",
   "received_asset_price_usd", "fee_amount", "fee_usd"}

\* A non-blank cell that is zero, negative or no decimal
Rejected(cell) == cell.k = "text" \/ (cell.k = "num" /\ cell.v <= 0)

\* Claim C20: a non-blank value of a numeric field (sent_amount,
\* sent_asset_price_usd, received_amount, received_asset_price_usd,
\* fee_amount, fee_usd) that is zero, negative or not a decimal produces an
\* error on that field of that row, and the row yields no transaction.
C20_NumericFieldsRejected ==
  [][Parse =>
      \A f \in NumericFields :
        Rejected(csvContent[1][f]) =>
          /\ \E i \in 1..Len(parseResult'.errors) :
                parseResult'.errors[i].row = 2 /\ parseResult'.errors[i].field = f
          /\ transactions' = <<>>
  ]_vars

\* ------------------------------------------------------------ parseCsv on several rows
\* The most data rows of a CSV
MaxCsvRows == 2

\* A BUY row of 1 ETH at 2 USD in wallet A
BuyRow(date, type, amount, wallet) ==
  [date_time |-> date, transaction_type |-> type,
   sent_asset |-> "", sent_amount |-> Blank, sent_asset_price_usd |-> Blank,
   received_asset |-> "ETH", received_amount |-> amount,
   received_asset_price_usd |-> Num(2),
   fee_amount |-> Blank, fee_asset |-> "", fee_usd |-> Blank,
   wallet_or_exchange |-> wallet]

\* Rows without a diagnostic, with a warning only, and with errors
CsvRows ==
  { BuyRow(d, "BUY", Num(1), "A") : d \in {Num(Day0), Num(Day365), Local(Day366)} }
  \cup { BuyRow(d, "BUY", Num(1), "A") : d \in {Blank, Text} }
  \cup { BuyRow(Local(Day0), "BUY", Num(0), "A"),
         BuyRow(Num(Day0), "HODL", Num(1), "A"),
         BuyRow(Num(Day365), "BUY", Text, ""),
         BuyRow(Num(Day0), "SELL", Num(1), "A") }

\* What Papa.parse may report on n data rows: nothing, an error on no row,
\* an error on a data row (counted from 0)
PapaReports(n) ==
  {<<>>, <<[row |-> None]>>} \cup {<<[row |-> Some(i)]>> : i \in 0..(n - 1)}

InitRows ==
  /\ InitPool
  /\ ctContent = <<>>
  /\ csvContent \in SeqsUpTo(CsvRows, MaxCsvRows)
  /\ papaErrors \in PapaReports(Len(csvContent))
  /\ oracleCalls = <<>> /\ normalizationWarnings = <<>>
  /\ parseResult = [errors |-> <<>>, warnings |-> <<>>]
  /\ taxYear = 0 /\ report = None /\ tz \in TimeZones
  /\ transactions = <<>> /\ method = "FIFO"
  /\ sorted = <<>> /\ pc = "parse" /\ idx = 0
  /\ disposals = <<>> /\ incomeEvents = <<>> /\ errors = <<>>
  /\ warnings = <<>> /\ remainingLots = {}
  /\ added = [p \in Pairs |-> 0]
  /\ returned = [p \in Pairs |-> 0]

SpecRows == InitRows /\ [][Parse]_vars

\* An error the validation of data row i (counted from 1) produced: it names
\* a field, which an error of Papa.parse does not
HasRowError(errs, i) ==
  \E k \in 1..Len(errs) : errs[k].row = i + 1 /\ errs[k].field # ""

\* The data rows, in order, that the predicate accepts
RowsWhere(rows, Ok(_)) == SelectSeq([i \in 1..Len(rows) |-> i], Ok)

\* The transactions are those of the given rows, in order
TransactionsOf(txs, rows, keep, offset) ==
  /\ Len(txs) = Len(keep)
  /\ \A k \in 1..Len(keep) :
       /\ txs[k].dateTime = dateOf(rows[keep[k]].date_time, offset)
       /\ txs[k].type = rows[keep[k]].transaction_type

InRows(n, rows) == n \in 2..(Len(rows) + 1)

ReceivedLegs ==
  {<<"", Blank, Blank>>, <<"BTC", Num(1), Blank>>, <<"btc", Num(1), Blank>>,
   <<"BTC", Num(1), Num(2)>>}
SentLegs == {<<"", Blank, Blank>>, <<"ETH", Num(1), Blank>>, <<"usd", Num(1), Blank>>}

EnrichRows ==
  { [date_time |-> Num(Day365), transaction_type |-> "TRADE",
     sent_asset |-> sl[1], sent_amount |-> sl[2], sent_asset_price_usd |-> sl[3],
     received_asset |-> rl[1], received_amount |-> rl[2],
     received_asset_price_usd |-> rl[3],
     fee_amount |-> Blank, fee_asset |-> "", fee_usd |-> Blank,
     wallet_or_exchange |-> "A"] : rl \in ReceivedLegs, sl \in SentLegs }

\* importCsv has the normalized rows in hand and is about to enrich them
InitEnrich ==
  /\ InitPool
  /\ ctContent = <<>>
  /\ csvContent \in SeqsUpTo(EnrichRows, MaxCsvRows)
  /\ papaErrors = <<>>
  /\ oracleCalls = <<>> /\ normalizationWarnings = <<>>
  /\ parseResult = [errors |-> <<>>, warnings |-> <<>>]
  /\ taxYear = 0 /\ report = None /\ tz = 0
  /\ transactions = <<>> /\ method = "FIFO"
  /\ sorted = <<>> /\ pc = "enrich" /\ idx = 0
  /\ disposals = <<>> /\ incomeEvents = <<>> /\ errors = <<>>
  /\ warnings = <<>> /\ remainingLots = {}
  /\ added = [p \in Pairs |-> 0]
  /\ returned = [p \in Pairs |-> 0]

SpecEnrich == InitEnrich /\ [][Enrich]_vars

\* The legs of a row as <<asset, amount cell, price cell>>
LegsOf(row) ==
  {<<row.received_asset, row.received_amount, row.received_asset_price_usd>>,
   <<row.sent_asset, row.sent_amount, row.sent_asset_price_usd>>}

\* A non-USD leg with an amount and a blank unit price
LegLacksPrice(leg) ==
  leg[1] # "" /\ toUpperCase(leg[1]) # "USD" /\ leg[2].k # "blank" /\ leg[3].k = "blank"

\* Claim C22: in one enrichPrices run the oracle is called at most once per
\* ticker (compared without regard to case), exactly once for each ticker
\* on a non-USD leg with an amount and a blank unit price, and not at all
\* when no leg needs a price; a failed or empty answer for a ticker adds a
\* warning, leaves the prices of that ticker blank and does not stop the
\* calls for the other tickers.
C22_OracleFrugality ==
  [][Enrich =>
      LET calls == oracleCalls'
          needed == {toUpperCase(leg[1]) :
                       leg \in {l \in UNION {LegsOf(csvContent[i]) :
                                   i \in 1..Len(csvContent)} : LegLacksPrice(l)}}
      IN /\ \A i, j \in 1..Len(calls) :
              i # j => toUpperCase(calls[i].ticker) # toUpperCase(calls[j].ticker)
         /\ {calls[k].ticker : k \in 1..Len(calls)} = needed
         /\ \A k \in 1..Len(calls) :
              (calls[k].answer.k = "fail" \/ calls[k].answer.m = <<>>) =>
                /\ \E w \in 1..Len(normalizationWarnings') :
                     normalizationWarnings'[w][2] = calls[k].ticker
                /\ \A i \in 1..Len(csvContent) :
                     \A leg \in LegsOf(csvContent[i]) :
                       (LegLacksPrice(leg) /\ toUpperCase(leg[1]) = calls[k].ticker)
                         => leg \in LegsOf(csvContent'[i])
  ]_vars

\* Two rows that need BTC (written BTC and btc) and ETH: the fetch for BTC
\* failed, the one for ETH came after it and its price was filled in
C22_Witness ==
  /\ pc = "parse" /\ Len(csvContent) = 2
  /\ csvContent[1].received_asset = "BTC" /\ csvContent[2].received_asset = "btc"
  /\ Len(oracleCalls) = 2
  /\ oracleCalls[1].ticker = "BTC" /\ oracleCalls[1].answer = FetchFailed
  /\ oracleCalls[2].ticker = "ETH"
  /\ csvContent[1].received_asset_price_usd = Blank
  /\ csvContent[2].received_asset_price_usd = Blank
  /\ csvContent[2].sent_asset_price_usd = Num(7)
  /\ Len(normalizationWarnings) = 2

\* ------------------------------------------------------------ the normalizer on one TRANSFER row
\* CoinTracker TRANSFER rows of 2 BTC: the date, the quantities, the cost
\* basis, the fee, the wallets and the hash varied
NormalizeRows ==
  {[Date |-> d, Type |-> "TRANSFER",
    receivedQty |-> q, receivedCur |-> "BTC", receivedCostBasis |-> cb,
    sentQty |-> Num(2), sentCur |-> "BTC",
    feeQty |-> fee, feeCur |-> fc, feeCostBasis |-> fcb,
    receivedWallet |-> rw, sentWallet |-> sw, txHash |-> h]
     : d \in {Num(Day0), Text}, q \in {Num(2), Num(0), Blank},
       cb \in {Blank, Num(4), Num(0)}, fee \in {Blank, Num(1)},
       fc \in {"BTC", "USD"}, fcb \in {Blank, Num(3)},
       rw \in {"", "B"}, sw \in {"", "A"}, h \in {"", "h1"}}

\* importCsv has detected a CoinTracker export of one row
InitNormalize ==
  /\ InitPool
  /\ ctContent \in {<<ct>> : ct \in NormalizeRows}
  /\ csvContent = <<>>
  /\ papaErrors = <<>>
  /\ oracleCalls = <<>> /\ normalizationWarnings = <<>>
  /\ parseResult = [errors |-> <<>>, warnings |-> <<>>]
  /\ taxYear = 0 /\ report = None /\ tz = 0
  /\ transactions = <<>> /\ method = "FIFO"
  /\ sorted = <<>> /\ pc = "normalize" /\ idx = 0
  /\ disposals = <<>> /\ incomeEvents = <<>> /\ errors = <<>>
  /\ warnings = <<>> /\ remainingLots = {}
  /\ added = [p \in Pairs |-> 0]
  /\ returned = [p \in Pairs |-> 0]

SpecNormalize == InitNormalize /\ [][Normalize]_vars

\* A cell that holds a number > 0
Positive(cell) == cell.k = "num" /\ cell.v > 0

\* The cell as the normalizer writes it back: blank unless positive
Kept(cell) == IF Positive(cell) THEN cell ELSE Blank

\* What C23 says of the two rows apart from their wallets
TransferSplit(ct, rows) ==
  /\ Len(rows) = 2
  /\ rows[1].transaction_type = "SEND" /\ rows[2].transaction_type = "RECEIVE"
  /\ rows[1].date_time = ct.Date /\ rows[2].date_time = ct.Date
  /\ rows[1].tx_hash = ct.txHash /\ rows[2].tx_hash = ct.txHash
  /\ rows[1].sent_asset = ct.sentCur /\ rows[1].sent_amount = Kept(ct.sentQty)
  /\ rows[1].fee_amount = Kept(ct.feeQty) /\ rows[1].fee_asset = ct.feeCur
  /\ rows[1].fee_usd = IF ct.feeCur = "USD" /\ Positive(ct.feeQty) THEN ct.feeQty
                       ELSE Kept(ct.feeCostBasis)
  /\ rows[2].received_asset = ct.receivedCur
  /\ rows[2].received_amount = Kept(ct.receivedQty)
  /\ rows[2].fee_amount = Blank /\ rows[2].fee_asset = "" /\ rows[2].fee_usd = Blank
  /\ IF Positive(ct.receivedCostBasis) /\ Positive(ct.receivedQty)
     THEN /\ rows[2].received_asset_price_usd.k = "num"
          /\ rows[2].received_asset_price_usd.v * ct.receivedQty.v
               = ct.receivedCostBasis.v
     ELSE rows[2].received_asset_price_usd = Blank

C24_WalletIsolation ==
  [][(last'.op \in {"consumeLots", "processDisposal"}) =>
      LET pair == <<last'.wallet, last'.asset>>
      IN /\ \A x \in Pairs \ {pair} : pools'[x] = pools[x]
         /\ \A k \in 1..Len(last'.consumed) :
              /\ last'.consumed[k].wallet = pair[1]
              /\ last'.consumed[k].asset = pair[2]
              /\ \E j \in 1..Len(pools[pair]) :
                   pools[pair][j].id = last'.consumed[k].id
         /\ last'.ok = (SumAmounts(pools[pair]) >= last'.amount)
  ]_vars

\* A consume at wallet B has failed while wallet A holds enough of the
\* asset, and holds it still
C24_Witness ==
  /\ last.op = "consumeLots" /\ last.wallet = "B" /\ ~last.ok
  /\ pools[<<"B", last.asset>>] = <<>>
  /\ SumAmounts(pools[<<"A", last.asset>>]) >= last.amount

\* ------------------------------------------------------------ transfers between wallets
\* The pool under addLot and transferLots, every wallet a source and a
\* destination, the source itself included; MaxTransferLots ids let a
\* transfer choose between two lots of the source
MaxTransferLots == 3

AddForTransfer ==
  \E w \in PoolAddWallets, a \in PoolAssets, q \in PoolAmounts,
     k \in PoolLotKinds :
       /\ nextLotId <= MaxTransferLots
       /\ pools' = addLot(pools,
                     [id |-> nextLotId, asset |-> a, amount |-> q,
                      originalAmount |-> q, costBasisPerUnit |-> k[2],
                      acquisitionDate |-> k[1], acquisitionType |-> "BUY",
                      wallet |-> w])
       /\ nextLotId' = nextLotId + 1
       /\ last' = [NoCall EXCEPT !.op = "addLot", !.wallet = w, !.asset = a,
                                 !.amount = q]
       /\ UNCHANGED calcVars

TransferBetween ==
  \E from \in Wallets, to \in Wallets, a \in PoolAssets, q \in PoolConsume :
    LET t == transferLots(pools, nextLotId, from, to, a, q)
    IN /\ t.nextLotId <= MaxTransferLots + 1
       /\ pools' = t.pools
       /\ nextLotId' = t.nextLotId
       /\ last' = [NoCall EXCEPT !.op = "transferLots", !.wallet = from,
                     !.to = to, !.asset = a, !.amount = q, !.method = "FIFO",
                     !.ok = t.ok, !.consumed = t.consumed]
       /\ UNCHANGED calcVars

NextTransfers == AddForTransfer \/ TransferBetween
SpecTransfers == InitCallers /\ [][NextTransfers]_vars

\* The ids of all the lots of the pool
LotIds(p) == UNION {{p[x][i].id : i \in 1..Len(p[x])} : x \in Pairs}

\* What a transfer adds at the destination, given the lots that were there
\* (before) and are there (after): one lot per consumed snapshot, in order,
\* with an id no lot has and none had, the destination as wallet, and the
\* basis per unit, the acquisition instant and the amount of the snapshot,
\* which are those of the source lot of the same id
Created(p, nextId, before, after, consumed, source, to) ==
  /\ Len(after) = Len(before) + Len(consumed)
  /\ \A k \in 1..Len(consumed) :
        LET lot == after[Len(before) + k]
            snap == consumed[k]
        IN /\ lot.id \notin LotIds(p) /\ lot.id >= nextId
           /\ \A j \in 1..Len(consumed) : j # k =>
                 after[Len(before) + j].id # lot.id
           /\ lot.wallet = to
           /\ lot.amount = snap.amount
           /\ lot.costBasisPerUnit = snap.costBasisPerUnit
           /\ lot.acquisitionDate = snap.acquisitionDate
           /\ \E j \in 1..Len(source) :
                 /\ source[j].id = snap.id
                 /\ source[j].costBasisPerUnit = lot.costBasisPerUnit
                 /\ source[j].acquisitionDate = lot.acquisitionDate

\* FIFO: the snapshots are in the order of their acquisition instants and
\* no lot the source keeps was acquired before a lot that was taken
TakenFifo(consumed, kept) ==
  /\ \A j, k \in 1..Len(consumed) :
        j < k => consumed[j].acquisitionDate <= consumed[k].acquisitionDate
  /\ \A j \in 1..Len(consumed), k \in 1..Len(kept) :
        consumed[j].acquisitionDate <= kept[k].acquisitionDate

\* Claim C25: a successful transferLots between two different wallets takes
\* the amount from the total of the source and adds it to the total of the
\* destination, taking source lots in FIFO order; each lot it creates has a
\* fresh id, the destination as wallet, and the basis per unit and the
\* acquisition instant of its source lot; no disposal and no income event
\* is produced; a failed transfer adds nothing at the destination.  A
\* transfer of a wallet to itself leaves the total as it was.
C25_TransferLots ==
  [][(last'.op = "transferLots") =>
      LET from == <<last'.wallet, last'.asset>>
          to == <<last'.to, last'.asset>>
          kept == IF from = to
                  THEN SubSeq(pools'[from], 1,
                              Len(pools'[from]) - Len(last'.consumed))
                  ELSE pools'[from]
      IN /\ disposals' = disposals /\ incomeEvents' = incomeEvents
         /\ last'.results = <<>>
         /\ ~last'.ok => /\ from # to => pools'[to] = pools[to]
                         /\ Len(pools'[to]) = Len(pools[to])
                         /\ nextLotId' = nextLotId
         /\ last'.ok =>
              /\ SumAmounts(last'.consumed) = last'.amount
              /\ from # to =>
                    /\ SumAmounts(pools'[from]) =
                         SumAmounts(pools[from]) - last'.amount
                    /\ SumAmounts(pools'[to]) =
                         SumAmounts(pools[to]) + last'.amount
              /\ from = to => SumAmounts(pools'[from]) = SumAmounts(pools[from])
              /\ TakenFifo(last'.consumed, kept)
              /\ Created(pools, nextLotId,
                         IF from = to THEN kept ELSE pools[to], pools'[to],
                         last'.consumed, pools[from], last'.to)
  ]_vars

\* A transfer from A to B has chosen between two lots of A: it took the one
\* acquired first, which was added last, and left the other
C25_Witness ==
  /\ last.op = "transferLots" /\ last.ok /\ last.wallet = "A" /\ last.to = "B"
  /\ Len(last.consumed) = 1 /\ Len(pools[<<"A", last.asset>>]) = 1
  /\ pools[<<"A", last.asset>>][1].id < last.consumed[1].id
  /\ pools[<<"A", last.asset>>][1].amount =
       pools[<<"A", last.asset>>][1].originalAmount
  /\ Len(pools[<<"B", last.asset>>]) = 1
  /\ pools[<<"B", last.asset>>][1].id = nextLotId - 1

\* The claim as stated, with no condition on the two wallets
C25_AsStated ==
  [][(last'.op = "transferLots" /\ last'.ok) =>
      /\ SumAmounts(pools'[<<last'.wallet, last'.asset>>]) =
           SumAmounts(pools[<<last'.wallet, last'.asset>>]) - last'.amount
      /\ SumAmounts(pools'[<<last'.to, last'.asset>>]) =
           SumAmounts(pools[<<last'.to, last'.asset>>]) + last'.amount
  ]_vars

\* ------------------------------------------------------------ a native CSV parsed and replayed
\* BUY and SELL rows of ETH at wallet A; the unit price of a BUY row is
\* blank, positive or negative (parseCsv checks the sign of amounts and
\* fees only)
LotRows ==
  { [date_time |-> Num(d), transaction_type |-> "BUY",
     sent_asset |-> "", sent_amount |-> Blank, sent_asset_price_usd |-> Blank,
     received_asset |-> "ETH", received_amount |-> Num(q),
     received_asset_price_usd |-> rp,
     fee_amount |-> Blank, fee_asset |-> "", fee_usd |-> Blank,
     wallet_or_exchange |-> "A"] :
      d \in {Day0, Day365}, q \in {1, 2}, rp \in {Blank, Num(2), Num(-1)} }
  \cup
  { [date_time |-> Num(d), transaction_type |-> "SELL",
     sent_asset |-> "ETH", sent_amount |-> Num(q),
     sent_asset_price_usd |-> Num(3),
     received_asset |-> "", received_amount |-> Blank,
     received_asset_price_usd |-> Blank,
     fee_amount |-> Blank, fee_asset |-> "", fee_usd |-> Blank,
     wallet_or_exchange |-> "A"] :
      d \in {Day0, Day365}, q \in {0, 1, 2} }

InitLots ==
  /\ InitPool
  /\ ctContent = <<>>
  /\ csvContent \in SeqsUpTo(LotRows, MaxCsvRows)
  /\ papaErrors = <<>>
  /\ oracleCalls = <<>> /\ normalizationWarnings = <<>>
  /\ parseResult = [errors |-> <<>>, warnings |-> <<>>]
  /\ taxYear = 0 /\ report = None /\ tz = 0
  /\ transactions = <<>> /\ method \in Methods
  /\ sorted = <<>> /\ pc = "parse" /\ idx = 0
  /\ disposals = <<>> /\ incomeEvents = <<>> /\ errors = <<>>
  /\ warnings = <<>> /\ remainingLots = {}
  /\ added = [p \in Pairs |-> 0]
  /\ returned = [p \in Pairs |-> 0]

NextLots == Parse \/ Sort \/ StepAcquire \/ StepSell \/ Finish
SpecLots == InitLots /\ [][NextLots]_vars

\* All the lots of the pool
LotsOf(p) == UNION {{p[x][i] : i \in 1..Len(p[x])} : x \in Pairs}

\* From one state of the pool to the next a lot keeps its original amount
\* and its wallet, and a lot with nothing remaining stays so or is removed
LotsKeepShape(p, q) ==
  \A a \in LotsOf(p), b \in LotsOf(q) :
    a.id = b.id =>
      /\ b.originalAmount = a.originalAmount
      /\ b.wallet = a.wallet
      /\ a.amount = 0 => b.amount = 0

\* 0 <= remaining <= original for every lot of the pool
LotsWithinOriginal(p) ==
  \A a \in LotsOf(p) : 0 <= a.amount /\ a.amount <= a.originalAmount

\* Claim C26: while calculateTaxes replays transactions parseCsv produced,
\* every lot of the pool has 0 <= remaining <= original and a basis per unit
\* of at least 0, keeps its original amount and its wallet, and once its
\* remaining is 0 never has a positive remaining again.
C26_LotInvariants ==
  [][/\ LotsWithinOriginal(pools')
     /\ \A a \in LotsOf(pools') : a.costBasisPerUnit >= 0
     /\ LotsKeepShape(pools, pools')
  ]_vars

\* ------------------------------------------------------------ results as snapshots
\* list is a prefix of longer: longer is list with entries appended
IsPrefix(list, longer) ==
  /\ Len(list) <= Len(longer)
  /\ \A i \in 1..Len(list) : longer[i] = list[i]

\* Claim C27: disposal results and income events are snapshots: every step
\* of a replay, whatever it consumes from or adds to the pool, leaves every
\* entry already in the disposal list and the income list as it was, field
\* by field, and changes the two lists only by appending at the end.
C27_ResultsAreSnapshots ==
  [][IsPrefix(disposals, disposals') /\ IsPrefix(incomeEvents, incomeEvents')]_vars

\* Two transactions have disposed of parts of one lot: the first result
\* still has the amount it was appended with
C27_Witness ==
  /\ Len(disposals) = 2
  /\ disposals[1].lotId = disposals[2].lotId
  /\ disposals[1].disposalType # disposals[2].disposalType
  /\ disposals[1].amount = 1

\* ------------------------------------------------------------ a failed sale, then a refill
\* Replays of up to MaxTx + 2 rows over a BUY, a SELL of more than the BUY,
\* and a later BUY and SELL
RefillUniverse ==
  {Received(Tx("BUY", Day0, "A"), "BTC", 1, Some(2)),
   Sent(Tx("SELL", Day365, "A"), "BTC", 2, Some(5)),
   Received(Tx("BUY", Day366, "A"), "BTC", 1, Some(3)),
   Sent(Tx("SELL", Day366, "A"), "BTC", 1, Some(5))}

InitRefill == InitPool /\ InitCalc(RefillUniverse, MaxTx + 2)

NextRefill == Sort \/ StepAcquire \/ StepSell \/ Finish
SpecRefill == InitRefill /\ [][NextRefill]_vars

\* Claim C28: every disposal result calculateTaxes returns has amount > 0,
\* for every method and every sequence of transactions, those included in
\* which an earlier disposal on the same wallet and asset failed with
\* insufficient lots and acquisitions and disposals followed.
C28_NoZeroAmountDisposal ==
  \A i \in 1..Len(disposals) : disposals[i].amount > 0

\* ------------------------------------------------------------ a trade whose sent leg fails
\* Claim C29: a TRADE is all-or-nothing in its outputs: when the disposal
\* of the sent leg fails with insufficient lots, the replay appends no
\* disposal, adds no lot for the received leg and issues no lot id, and
\* records exactly one error; when it succeeds, disposals are appended, no
\* error is recorded and the received lot is added under the next lot id.
C29_TradeAllOrNothing ==
  [][(pc = "loop" /\ idx <= Len(sorted) /\ idx' = idx + 1
      /\ sorted[idx].type = "TRADE") =>
      LET tx == sorted[idx]
          sent == <<tx.wallet, tx.sentAsset[1]>>
          recv == <<tx.wallet, tx.receivedAsset[1]>>
          enough == SumAmounts(pools[sent]) >= tx.sentAmount[1]
      IN /\ incomeEvents' = incomeEvents
         /\ ~enough =>
              /\ disposals' = disposals
              /\ pools'[recv] = pools[recv]
              /\ nextLotId' = nextLotId
              /\ Len(errors') = Len(errors) + 1
              /\ IsPrefix(errors, errors')
         /\ enough =>
              /\ Len(disposals') > Len(disposals)
              /\ \A i \in (Len(disposals) + 1)..Len(disposals') :
                    /\ disposals'[i].disposalType = "TRADE"
                    /\ disposals'[i].asset = tx.sentAsset[1]
              /\ errors' = errors
              /\ nextLotId' = nextLotId + 1
              /\ Len(pools'[recv]) = Len(pools[recv]) + 1
              /\ pools'[recv][Len(pools'[recv])].id = nextLotId
              /\ pools'[recv][Len(pools'[recv])].amount = tx.receivedAmount[1]
  ]_vars

\* A BUY, a SELL of what was bought, then a TRADE that found nothing to
\* dispose of: one disposal (the SELL's), one error, no ETH lot, one lot id
\* issued
C29_Witness ==
  /\ pc = "loop" /\ Len(sorted) = 3 /\ idx = 4
  /\ sorted[3].type = "TRADE" /\ sorted[2].type = "SELL"
  /\ Len(disposals) = 1 /\ disposals[1].disposalType = "SELL"
  /\ Len(errors) = 1
  /\ pools[<<"A", "ETH">>] = <<>>
  /\ nextLotId = 2

\* ------------------------------------------------------------ no lot is sold before it is acquired
\* Claim C30: every disposal result of calculateTaxes has an acquisition
\* instant at or before its disposal instant, and so holdingDays >= 0, for
\* every method and every order of the input list: the replay is in the
\* order of sortTransactions, so a lot is consumed only by a transaction
\* replayed after the one that created it.
C30_AcquiredBeforeDisposed ==
  \A i \in 1..Len(disposals) :
    /\ disposals[i].acquisitionDate <= disposals[i].disposalDate
    /\ disposals[i].holdingDays >= 0

\* The input lists a SELL before the BUY of the same instant that supplies
\* it; the replay has disposed of the lot on the day it was acquired
C30_Witness ==
  /\ Len(transactions) = 2
  /\ transactions[1].type = "SELL" /\ transactions[2].type = "BUY"
  /\ transactions[1].dateTime = transactions[2].dateTime
  /\ Len(disposals) = 1
  /\ disposals[1].acquisitionDate = disposals[1].disposalDate
  /\ disposals[1].holdingDays = 0
====
